---- MODULE Spec2Model ----
(***************************************************************************)
(* Model of Starmap's issue-body parser (src/lib/parser.ts): getChildren   *)
(* with its three extraction strategies and getDueDate.                    *)
(*                                                                         *)
(* Text is a sequence of one-character strings, so that indexOf, split,    *)
(* trim, replace and the regular expression of the source are computed     *)
(* character by character.  A thrown Error is a result record with         *)
(* ok = FALSE and the Error's message in err.                              *)
(***************************************************************************)
EXTENDS Integers, Sequences, FiniteSets, TLC

(***************************************************************************)
(* Bounds of the model.                                                    *)
(***************************************************************************)
\* the number of line fragments a generated issue.body is made of, at most
MaxLines == 4
\* the same, for the bodies of SpecBlocks
MaxBlockLines == 5
\* the number of entries the errorManager takes, at most
MaxErrors == 3
\* the most elements in the markup of an issue of SpecLegacy
MaxElements == 4
\* the most lines in the body of an issue of SpecHeaders
MaxHeaderLines == 4

(***************************************************************************)
(* String literals of the source.                                          *)
(***************************************************************************)
\* the grave accent character (a TLA+ string cannot hold it)
Backtick == "grave"
\* the opening fence of a tasklist block: three grave accents and '[tasklist]'
TaskListHeader ==
  <<Backtick, Backtick, Backtick,
    "[", "t", "a", "s", "k", "l", "i", "s", "t", "]">>
\* 'children:'
ChildrenHeader ==
  <<"c", "h", "i", "l", "d", "r", "e", "n", ":">>
\* ']('
MarkdownLinkToken == <<"]", "(">>
\* 'github.com'
GithubHost ==
  <<"g", "i", "t", "h", "u", "b", ".", "c", "o", "m">>
\* 'https://'
HttpsScheme ==
  <<"h", "t", "t", "p", "s", ":", "/", "/">>
\* '/issues/'
IssuesSegment ==
  <<"/", "i", "s", "s", "u", "e", "s", "/">>
\* group labels
TaskListGroup == <<"t", "a", "s", "k", "l", "i", "s", "t">>
ChildrenGroup == ChildrenHeader
\* Error messages
SectionMissing == "Section missing or has no children"
HtmlTagsFound == "HTML tags found in body_text"
InvalidHost == "Invalid host for children item"
InvalidUrl == "Invalid URL"
CouldNotParseUrl == "Could not parse URL"
ParseHtmlFailed == "parseHTML failed"
EtaNotFound == "ETA not found"

Digits == {"0", "1", "2", "3", "4", "5", "6", "7", "8", "9"}
\* the white space String.prototype.trim removes
WhiteSpace == {" ", "\t", "\n", "\r"}
LineBreaks == {"\n", "\r"}

(***************************************************************************)
(* Results: a returned value, or a thrown Error.                           *)
(***************************************************************************)
Return(v) == [ok |-> TRUE, err |-> "", val |-> v]
Throw(e) == [ok |-> FALSE, err |-> e, val |-> <<>>]

(***************************************************************************)
(* JavaScript string operations, on sequences of characters.               *)
(***************************************************************************)
\* s occurs in t at position i (1-based)
OccursAt(t, s, i) ==
  /\ i >= 1
  /\ i + Len(s) - 1 <= Len(t)
  /\ \A k \in 1..Len(s) : t[i + k - 1] = s[k]

\* String.prototype.indexOf, 1-based; 0 when s does not occur in t
indexOf(t, s) ==
  LET hits == {i \in 1..(Len(t) - Len(s) + 1) : OccursAt(t, s, i)}
  IN  IF hits = {} THEN 0 ELSE CHOOSE i \in hits : \A j \in hits : i <= j

includes(t, s) == indexOf(t, s) # 0

startsWith(t, s) == OccursAt(t, s, 1)

\* String.prototype.substring(i), 1-based
substring(t, i) == SubSeq(t, i, Len(t))

\* String.prototype.trim
trim(t) ==
  LET keep == {i \in 1..Len(t) : t[i] \notin WhiteSpace}
  IN  IF keep = {} THEN <<>>
      ELSE LET lo == CHOOSE i \in keep : \A j \in keep : i <= j
               hi == CHOOSE i \in keep : \A j \in keep : i >= j
           IN  SubSeq(t, lo, hi)

\* String.prototype.split(sep) for a non-empty literal separator
RECURSIVE split(_, _)
split(t, sep) ==
  LET i == indexOf(t, sep)
  IN  IF i = 0 THEN <<t>>
      ELSE <<SubSeq(t, 1, i - 1)>> \o split(substring(t, i + Len(sep)), sep)

\* String.prototype.split(/[\r\n]+/): the pieces between maximal runs of line breaks
RECURSIVE splitLines(_)
splitLines(t) ==
  LET brk == {i \in 1..Len(t) : t[i] \in LineBreaks}
  IN  IF brk = {} THEN <<t>>
      ELSE LET i == CHOOSE k \in brk : \A j \in brk : k <= j
               after == {k \in (i + 1)..Len(t) : t[k] \notin LineBreaks}
               j == IF after = {} THEN Len(t) + 1
                    ELSE CHOOSE k \in after : \A m \in after : k <= m
           IN  <<SubSeq(t, 1, i - 1)>> \o splitLines(substring(t, j))

\* String.prototype.replace(p, '') for a string pattern: the first occurrence only
replaceFirst(t, p) ==
  LET i == indexOf(t, p)
  IN  IF i = 0 THEN t
      ELSE SubSeq(t, 1, i - 1) \o substring(t, i + Len(p))

\* Array.prototype.slice(-1)[0]
last(seq) == seq[Len(seq)]

\* Array.prototype.slice(1)
slice1(seq) == SubSeq(seq, 2, Len(seq))

\* Array.prototype.map
map(F(_), seq) == [i \in 1..Len(seq) |-> F(seq[i])]

\* Array.prototype.filter
RECURSIVE filter(_, _)
filter(P(_), seq) ==
  IF seq = <<>> THEN <<>>
  ELSE (IF P(Head(seq)) THEN <<Head(seq)>> ELSE <<>>) \o filter(P, Tail(seq))

\* Array.prototype.join('\n')
RECURSIVE join(_)
join(seq) ==
  IF seq = <<>> THEN <<>>
  ELSE IF Len(seq) = 1 THEN seq[1]
  ELSE seq[1] \o <<"\n">> \o join(Tail(seq))

\* Array.prototype.flat
RECURSIVE flat(_)
flat(seq) == IF seq = <<>> THEN <<>> ELSE Head(seq) \o flat(Tail(seq))

\* the truthiness of a string (filter(Boolean))
Boolean(t) == t # <<>>

\* /^\d+$/
AllDigits(t) == Len(t) >= 1 /\ \A i \in 1..Len(t) : t[i] \in Digits

\* null and undefined: a value no string of characters equals
Null == <<"null">>

\* 'https://github.com/'
GithubBase == HttpsScheme \o GithubHost \o <<"/">>

LowerCase ==
  {"a", "b", "c", "d", "e", "f", "g", "h", "i", "j", "k", "l", "m",
   "n", "o", "p", "q", "r", "s", "t", "u", "v", "w", "x", "y", "z"}
\* the characters of a host name, and of an owner or repository name
NameChars == LowerCase \cup Digits \cup {".", "-", "_"}
IsName(t) == Len(t) >= 1 /\ \A i \in 1..Len(t) : t[i] \in NameChars

(***************************************************************************)
(* Collaborators of the parser whose code is outside src/.                 *)
(***************************************************************************)
\* getValidUrlFromInput(input): the canonical URL of an absolute https URL or
\* of a GitHub short reference owner/repo#N; throws on any other input.
\* the URL of an absolute URL whose host is host
UrlOfHost(host, input) ==
  IF IsName(host) THEN Return([host |-> host, href |-> input])
  ELSE Throw(InvalidUrl)

\* the host of what follows 'https://': up to the first '/', '?' or '#'
HostPart(rest) == Head(split(Head(split(Head(split(rest, <<"/">>)), <<"?">>)), <<"#">>))

\* the URL of the short reference whose pieces around '/' are p and whose
\* pieces around '#' are h
UrlOfShortReference(p, h) ==
  IF /\ Len(h) = 2
     /\ AllDigits(h[2])
     /\ Len(p) = 2
     /\ IsName(p[1])
     /\ IsName(p[2])
  THEN Return([host |-> GithubHost,
               href |-> GithubBase \o p[1] \o <<"/">> \o p[2]
                          \o IssuesSegment \o h[2]])
  ELSE Throw(InvalidUrl)

getValidUrlFromInput(input) ==
  IF startsWith(input, HttpsScheme)
  THEN UrlOfHost(HostPart(substring(input, Len(HttpsScheme) + 1)), input)
  ELSE UrlOfShortReference(split(Head(split(input, <<"#">>)), <<"/">>),
                           split(input, <<"#">>))

\* paramsFromUrl(url): owner and repo of https://github.com/owner/repo/issues/N
\* owner and repo of the path whose pieces around '/' are p
ParamsOfPath(p) ==
  IF /\ Len(p) = 4
     /\ IsName(p[1])
     /\ IsName(p[2])
     /\ p[3] = <<"i", "s", "s", "u", "e", "s">>
     /\ AllDigits(p[4])
  THEN Return([owner |-> p[1], repo |-> p[2]])
  ELSE Throw(CouldNotParseUrl)

paramsFromUrl(url) ==
  IF url = Null \/ ~startsWith(url, GithubBase) THEN Throw(CouldNotParseUrl)
  ELSE ParamsOfPath(split(substring(url, Len(GithubBase) + 1), <<"/">>))

\* the titles isValidChildren accepts: 'children:' and 'Children'
ValidChildrenTitles ==
  {<<"c", "h", "i", "l", "d", "r", "e", "n", ":">>,
   <<"C", "h", "i", "l", "d", "r", "e", "n">>}

\* isValidChildren(title); title is Null when the list has no previous sibling
isValidChildren(title) == title \in ValidChildrenTitles

(***************************************************************************)
(* src/lib/parser.ts: the text strategies.                                 *)
(***************************************************************************)
getUrlFromMarkdownText(line) ==
  replaceFirst(last(split(trim(line), MarkdownLinkToken)), <<")">>)

splitAndGetLastItem(line) == last(split(trim(line), <<" ">>))

\* a variant of ensureTaskListChild: every line is kept
ensureTaskListChild_AnyLine(line) == TRUE

ensureTaskListChild(line) == indexOf(trim(line), <<"-">>) = 1

\* a variant of getSectionLines: the section starts at the last occurrence
\* of the header (lastIndexOf)
getSectionLines_LastOccurrence(text, sectionHeader) ==
  IF indexOf(text, sectionHeader) = 0 THEN <<>>
  ELSE map(getUrlFromMarkdownText,
           slice1(splitLines(substring(text,
             CHOOSE i \in 1..Len(text) :
               /\ OccursAt(text, sectionHeader, i)
               /\ \A j \in (i + 1)..Len(text) : ~OccursAt(text, sectionHeader, j)))))

\* a variant of getSectionLines: the header's line is not discarded
getSectionLines_KeepHeader(text, sectionHeader) ==
  IF indexOf(text, sectionHeader) = 0 THEN <<>>
  ELSE map(getUrlFromMarkdownText,
           splitLines(substring(text, indexOf(text, sectionHeader))))

getSectionLines(text, sectionHeader) ==
  LET sectionIndex == indexOf(text, sectionHeader)
  IN  IF sectionIndex = 0 THEN <<>>
      ELSE map(getUrlFromMarkdownText,
               slice1(splitLines(substring(text, sectionIndex))))

\* a variant of IsShortReference: the pattern without its end anchor, /^#\d+/
IsShortReference_Unanchored(line) ==
  Len(line) >= 2 /\ line[1] = "#" /\ line[2] \in Digits

\* /^#\d+$/.test(line)
IsShortReference(line) ==
  Len(line) >= 2 /\ line[1] = "#" /\ AllDigits(Tail(line))

\* the string getUrlStringForChildrenLine hands to getValidUrlFromInput
\* (defined when paramsFromUrl does not throw)
\* `${owner}/${repo}${line}`
ShortReferenceOf(params, line) == params.owner \o <<"/">> \o params.repo \o line

ExpandedLine(line, iss) ==
  IF IsShortReference(line)
  THEN ShortReferenceOf(paramsFromUrl(iss.html_url).val, line)
  ELSE line

\* a variant of HostAccepted: the host is not looked at
HostAccepted_AnyHost(host) == TRUE

\* url.host.includes('github.com')
HostAccepted(host) == includes(host, GithubHost)

\* the href of the validated url, which is to have a GitHub host
HrefOfGithubUrl(url) ==
  IF ~url.ok THEN Throw(url.err)
  ELSE IF ~HostAccepted(url.val.host) THEN Throw(InvalidHost)
  ELSE Return(url.val.href)

getUrlStringForChildrenLine(line, iss) ==
  IF IsShortReference(line) /\ ~paramsFromUrl(iss.html_url).ok
  THEN Throw(CouldNotParseUrl)
  ELSE HrefOfGithubUrl(getValidUrlFromInput(ExpandedLine(line, iss)))

\* a variant of getValidChildrenLinks: a line that fails is skipped
\* (continue) and the lines after it are still resolved
\* the links pushed for a line whose resolution is r
PushedLink(r) == IF r.ok THEN <<r.val>> ELSE <<>>

RECURSIVE getValidChildrenLinks_SkipFailed(_, _)
getValidChildrenLinks_SkipFailed(lines, iss) ==
  IF lines = <<>> THEN <<>>
  ELSE PushedLink(getUrlStringForChildrenLine(Head(lines), iss))
         \o getValidChildrenLinks_SkipFailed(Tail(lines), iss)

\* the loop of getValidChildrenLinks from a line whose resolution is r:
\* push and go on, or break
RECURSIVE getValidChildrenLinks(_, _)
LinksFrom(r, rest, iss) ==
  IF r.ok THEN PushedLink(r) \o getValidChildrenLinks(rest, iss) ELSE <<>>

getValidChildrenLinks(lines, iss) ==
  IF lines = <<>> THEN <<>>
  ELSE LinksFrom(getUrlStringForChildrenLine(Head(lines), iss), Tail(lines), iss)

\* a sequence without the later occurrences of its elements
RECURSIVE WithoutRepeats(_)
WithoutRepeats(seq) ==
  IF seq = <<>> THEN <<>>
  ELSE IF \E j \in 1..(Len(seq) - 1) : seq[j] = seq[Len(seq)]
       THEN WithoutRepeats(SubSeq(seq, 1, Len(seq) - 1))
  ELSE Append(WithoutRepeats(SubSeq(seq, 1, Len(seq) - 1)), seq[Len(seq)])

\* a variant of ChildrenOfLinks: a link gets one record, however often it occurs
ChildrenOfLinks_Unique(validChildrenLinks, group) ==
  [i \in 1..Len(WithoutRepeats(validChildrenLinks)) |->
     [group |-> group, html_url |-> WithoutRepeats(validChildrenLinks)[i]]]

\* validChildrenLinks.map((html_url) => ({ group, html_url }))
ChildrenOfLinks(validChildrenLinks, group) ==
  [i \in 1..Len(validChildrenLinks) |->
     [group |-> group, html_url |-> validChildrenLinks[i]]]

convertLinesToChildren(lines, iss, group) ==
  ChildrenOfLinks(getValidChildrenLinks(lines, iss), group)

\* the lines before the first line that begins with a fence
UpToFence(lines) ==
  SubSeq(lines, 1,
         (CHOOSE n \in 0..Len(lines) :
            /\ \A i \in 1..n : ~startsWith(lines[i], <<Backtick, Backtick, Backtick>>)
            /\ n < Len(lines) => startsWith(lines[n + 1], <<Backtick, Backtick, Backtick>>)))

\* a variant of TaskListLines: the section ends at the closing fence
TaskListLines_ToClosingFence(iss) ==
  filter(Boolean,
         map(splitAndGetLastItem,
             filter(ensureTaskListChild,
                    UpToFence(getSectionLines(iss.body, TaskListHeader)))))

\* the lines getChildrenFromTaskList resolves
TaskListLines(iss) ==
  filter(Boolean,
         map(splitAndGetLastItem,
             filter(ensureTaskListChild,
                    getSectionLines(iss.body, TaskListHeader))))

\* a section's lines: none is an Error, the others are converted
ChildrenOfSection(lines, iss, group) ==
  IF Len(lines) = 0 THEN Throw(SectionMissing)
  ELSE Return(convertLinesToChildren(lines, iss, group))

getChildrenFromTaskList(iss) ==
  ChildrenOfSection(TaskListLines(iss), iss, TaskListGroup)

\* the lines getChildrenNew resolves when the tasklist attempt has thrown
ChildrenLines(iss) ==
  filter(Boolean,
         map(splitAndGetLastItem, getSectionLines(iss.body, ChildrenHeader)))

\* a variant of HasHtmlTag: only the first line is looked at
HasHtmlTag_FirstLineOnly(lines) == startsWith(lines[1], <<"<">>)

\* lines.some((line) => line.startsWith('<'))
HasHtmlTag(lines) == \E i \in 1..Len(lines) : startsWith(lines[i], <<"<">>)

\* a variant of TryCatch: the Error of the attempt is thrown again
TryCatch_Rethrow(attempt, otherwise) == attempt

\* try { return attempt } catch (e) { }, followed by otherwise
TryCatch(attempt, otherwise) == IF attempt.ok THEN attempt ELSE otherwise

\* getChildrenNew after the tasklist attempt, on the lines of 'children:'
ChildrenOfLines(lines, iss) ==
  IF Len(lines) = 0 THEN Throw(SectionMissing)
  ELSE IF HasHtmlTag(lines) THEN Throw(HtmlTagsFound)
  ELSE Return(convertLinesToChildren(lines, iss, ChildrenGroup))

\* a variant of getChildrenNew: the 'children:' section is tried first and
\* the tasklist block after it
getChildrenNew_ChildrenFirst(iss) ==
  TryCatch(ChildrenOfLines(ChildrenLines(iss), iss), getChildrenFromTaskList(iss))

getChildrenNew(iss) ==
  TryCatch(getChildrenFromTaskList(iss), ChildrenOfLines(ChildrenLines(iss), iss))

(***************************************************************************)
(* src/lib/parser.ts: the legacy strategy, on the document parseHTML       *)
(* returns.  A document is the sequence of its top-level elements; an      *)
(* element has a tag, its own text and, for a list, the anchors inside it. *)
(* The element before elements[i] (previousElementSibling) is              *)
(* elements[i - 1]; a document with malformed = TRUE makes parseHTML throw.*)
(***************************************************************************)
parseHTML(body_html) ==
  IF body_html.malformed THEN Throw(ParseHtmlFailed)
  ELSE Return(body_html.elements)

\* element.textContent: the element's text and the text of its descendants
textContent(el) ==
  el.text \o flat([i \in 1..Len(el.anchors) |-> el.anchors[i].text])

\* list.previousElementSibling?.textContent?.trim()
ListTitle(elements, i) ==
  IF i = 1 THEN Null ELSE trim(textContent(elements[i - 1]))

\* a variant of ValidLists: every list is retained, whatever its title
ValidLists_AnyTitle(elements) ==
  filter(LAMBDA i : elements[i].tag = "ul", [i \in 1..Len(elements) |-> i])

\* a variant of ValidLists: the retained lists, the last of the document first
ValidLists_LastFirst(elements) ==
  [k \in 1..Len(filter(LAMBDA i : elements[i].tag = "ul" /\ isValidChildren(ListTitle(elements, i)),
                       [i \in 1..Len(elements) |-> i])) |->
     filter(LAMBDA i : elements[i].tag = "ul" /\ isValidChildren(ListTitle(elements, i)),
            [i \in 1..Len(elements) |-> i])
       [Len(filter(LAMBDA i : elements[i].tag = "ul" /\ isValidChildren(ListTitle(elements, i)),
                   [i \in 1..Len(elements) |-> i])) + 1 - k]]

\* document.querySelectorAll('ul'), as indices, filtered by filterListByTitle
ValidLists(elements) ==
  filter(LAMBDA i : elements[i].tag = "ul" /\ isValidChildren(ListTitle(elements, i)),
         [i \in 1..Len(elements) |-> i])

\* a variant of IsIssueAnchor: every anchor with an href is taken
IsIssueAnchor_AnyHref(a) == a.href # Null

\* the selector a[href][data-hovercard-type*="issue"]
IsIssueAnchor(a) ==
  /\ a.href # Null
  /\ a.hovercard # Null
  /\ includes(a.hovercard, <<"i", "s", "s", "u", "e">>)

\* a variant of ListHrefs: only the hrefs on GitHub are kept
ListHrefs_GithubOnly(el) ==
  filter(LAMBDA href : includes(href, GithubHost),
         map(LAMBDA a : a.href, filter(IsIssueAnchor, el.anchors)))

\* list.querySelectorAll('a[href][data-hovercard-type*="issue"]').map(v => v.href)
ListHrefs(el) ==
  map(LAMBDA a : a.href, filter(IsIssueAnchor, el.anchors))

getChildrenFromHtml(body_html) ==
  LET parsed == parseHTML(body_html)
      elements == parsed.val
      lists == ValidLists(elements)
      perList == [k \in 1..Len(lists) |->
                    LET hrefs == ListHrefs(elements[lists[k]])
                        listTitle == ListTitle(elements, lists[k])
                    IN  [j \in 1..Len(hrefs) |->
                           [group |-> listTitle, html_url |-> hrefs[j]]]]
  IN  IF ~parsed.ok THEN Throw(parsed.err) ELSE Return(flat(perList))

\* a variant of getChildren: the records of the legacy extractor are added
\* to those of the text attempt
getChildren_Merging(iss) ==
  IF getChildrenNew(iss).ok /\ getChildrenFromHtml(iss.body_html).ok
  THEN Return(getChildrenNew(iss).val \o getChildrenFromHtml(iss.body_html).val)
  ELSE TryCatch(getChildrenNew(iss), getChildrenFromHtml(iss.body_html))

\* a variant of getChildren: a failure of the text attempt is not caught
getChildren_NoFallback(iss) == getChildrenNew(iss)

getChildren(iss) ==
  TryCatch(getChildrenNew(iss), getChildrenFromHtml(iss.body_html))

(***************************************************************************)
(* src/lib/parser.ts: getDueDate.                                          *)
(***************************************************************************)
\* getEtaDate(text), whose code is outside src/: the token after the first
\* 'eta: ' of the text, up to the end of its line; throws when there is none
getEtaDate(text) ==
  LET at == indexOf(text, <<"e", "t", "a", ":", " ">>)
      rest == substring(text, at + 5)
  IN  IF at = 0 THEN Throw(EtaNotFound)
      ELSE Return(trim(Head(splitLines(rest))))

\* errorManager.addError(entry), whose code is outside src/
addError(errorManager, entry) == Append(errorManager, entry)

\* document.querySelectorAll('*'): every element, in document order
AllElements(elements) ==
  flat([i \in 1..Len(elements) |->
          <<elements[i]>>
            \o [j \in 1..Len(elements[i].anchors) |->
                  [tag |-> "a", text |-> elements[i].anchors[j].text,
                   anchors |-> <<>>]]])

\* a variant of ShouldReport: the root issue is reported too
ShouldReport_RootToo(iss) == iss.html_url # Null

\* issue.html_url != null && issue.root_issue !== true
ShouldReport(iss) == iss.html_url # Null /\ iss.root_issue # "true"

\* a variant of EtaOrEmpty: null is returned as it is
EtaOrEmpty_Null(scan) == IF scan.ok THEN scan.val ELSE Null

\* eta ?? '', eta being null unless getEtaDate has returned
EtaOrEmpty(scan) == IF scan.ok THEN scan.val ELSE <<>>

\* the entry getDueDate adds to the errorManager
EtaErrorEntry(iss) ==
  [issue |-> iss,
   userGuideSection |-> "#eta",
   errorTitle |-> "ETA not found",
   errorMessage |-> "ETA not found in issue body"]

\* a variant of getDueDate: the entry is added outside the catch clause,
\* whether getEtaDate has returned or thrown
getDueDate_ReportsAlways(iss, errorManager) ==
  IF ~parseHTML(iss.body_html).ok
  THEN [result |-> Throw(parseHTML(iss.body_html).err), errors |-> errorManager]
  ELSE [result |-> Return([eta |-> EtaOrEmpty(getEtaDate(join(map(textContent,
                             AllElements(parseHTML(iss.body_html).val)))))]),
        errors |-> IF ShouldReport(iss)
                   THEN addError(errorManager, EtaErrorEntry(iss))
                   ELSE errorManager]

\* getDueDate(issue, errorManager): what it returns or throws, and the
\* errorManager's entries after the call
getDueDate(iss, errorManager) ==
  LET parsed == parseHTML(iss.body_html)
      issueText == join(map(textContent, AllElements(parsed.val)))
      scan == getEtaDate(issueText)
  IN  IF ~parsed.ok
      THEN [result |-> Throw(parsed.err), errors |-> errorManager]
      ELSE [result |-> Return([eta |-> EtaOrEmpty(scan)]),
            errors |-> IF ~scan.ok /\ ShouldReport(iss)
                       THEN addError(errorManager, EtaErrorEntry(iss))
                       ELSE errorManager]

(***************************************************************************)
(* The issues of the model.  issue.body is made of at most MaxLines        *)
(* fragments, each a line with its line break.                             *)
(***************************************************************************)
\* 'children:' and a line feed
FragChildrenHeader ==
  <<"c", "h", "i", "l", "d", "r", "e", "n", ":", "\n">>
\* the opening fence of a tasklist block, CR LF
FragTaskListHeader ==
  <<Backtick, Backtick, Backtick, "[", "t", "a", "s", "k", "l", "i", "s", "t", "]", "\r", "\n">>
\* '- [ ] #12', CR LF: a checkbox line with a short reference
FragShortRef ==
  <<"-", " ", "[", " ", "]", " ", "#", "1", "2", "\r", "\n">>
\* 'https://github.com/o/r/issues/5': a line with no dash
FragUrl ==
  <<"h", "t", "t", "p", "s", ":", "/", "/", "g", "i", "t", "h", "u", "b", ".", "c", "o", "m", "/", "o", "/", "r", "/", "i", "s", "s", "u", "e", "s", "/", "5", "\n">>
\* '- https://evil.io/x': a dash line whose host is not GitHub's
FragForeign ==
  <<"-", " ", "h", "t", "t", "p", "s", ":", "/", "/", "e", "v", "i", "l", ".", "i", "o", "/", "x", "\n">>
\* '<p>'
FragHtml ==
  <<"<", "p", ">", "\n">>
\* the closing fence
FragFence ==
  <<Backtick, Backtick, Backtick, "\n">>
\* '- https://github.com/o/r/issues/8': a dash line with an absolute URL
FragDashUrl ==
  <<"-", " ", "h", "t", "t", "p", "s", ":", "/", "/", "g", "i", "t", "h", "u", "b", ".", "c", "o", "m", "/", "o", "/", "r", "/", "i", "s", "s", "u", "e", "s", "/", "8", "\n">>

\* the lines of the bodies of Spec
TextFragments ==
  {FragChildrenHeader, FragTaskListHeader, FragShortRef, FragUrl,
   FragForeign, FragHtml, FragFence}

\* the lines of the bodies of SpecBlocks: headers, fences and dash lines
BlockFragments ==
  {FragChildrenHeader, FragTaskListHeader, FragShortRef, FragDashUrl,
   FragForeign, FragFence}

\* 'Children:': the header in another case
FragCapitalHeader ==
  <<"C", "h", "i", "l", "d", "r", "e", "n", ":", "\n">>
\* 'my children: https://github.com/o/r/issues/5': a line with 'children:'
\* in it and a URL after it
FragHeaderWithRest ==
  <<"m", "y", " ", "c", "h", "i", "l", "d", "r", "e", "n", ":", " ", "h", "t", "t", "p", "s", ":", "/", "/", "g", "i", "t", "h", "u", "b", ".", "c", "o", "m", "/", "o", "/", "r", "/", "i", "s", "s", "u", "e", "s", "/", "5", "\n">>
\* ' - https://github.com/o/r/issues/8', CR LF: a dash line after a space
FragIndentedUrl ==
  <<" ", "-", " ", "h", "t", "t", "p", "s", ":", "/", "/", "g", "i", "t", "h", "u", "b", ".", "c", "o", "m", "/", "o", "/", "r", "/", "i", "s", "s", "u", "e", "s", "/", "8", "\r", "\n">>

\* the lines of the bodies of SpecHeaders
HeaderFragments ==
  {FragChildrenHeader, FragCapitalHeader, FragHeaderWithRest, FragDashUrl,
   FragIndentedUrl, FragForeign}

\* the sequences of at most n fragments of the set frags
RECURSIVE SeqsUpTo(_, _)
SeqsUpTo(frags, n) ==
  IF n = 0 THEN {<<>>}
  ELSE LET shorter == SeqsUpTo(frags, n - 1)
       IN  shorter \cup {Append(q, f) : q \in shorter, f \in frags}

\* the text made of a sequence of fragments
BodyOf(ps) == flat(ps)

\* 'https://github.com/o/r/issues/1'
IssueUrl ==
  <<"h", "t", "t", "p", "s", ":", "/", "/", "g", "i", "t", "h", "u", "b", ".", "c", "o", "m", "/", "o", "/", "r", "/", "i", "s", "s", "u", "e", "s", "/", "1">>
\* an anchor GitHub renders for an issue reference
AnchorIssue ==
  [href |-> <<"h", "t", "t", "p", "s", ":", "/", "/", "g", "i", "t", "h", "u", "b", ".", "c", "o", "m", "/", "o", "/", "r", "/", "i", "s", "s", "u", "e", "s", "/", "3">>, hovercard |-> <<"i", "s", "s", "u", "e">>, text |-> <<"o", "/", "r", "#", "3">>]
\* an issue anchor whose href is not on GitHub
AnchorForeign ==
  [href |-> <<"h", "t", "t", "p", "s", ":", "/", "/", "e", "v", "i", "l", ".", "i", "o", "/", "y">>, hovercard |-> <<"i", "s", "s", "u", "e">>, text |-> <<"y">>]
\* an anchor of a pull request
AnchorPull ==
  [href |-> <<"h", "t", "t", "p", "s", ":", "/", "/", "g", "i", "t", "h", "u", "b", ".", "c", "o", "m", "/", "o", "/", "r", "/", "p", "u", "l", "l", "/", "4">>, hovercard |-> <<"p", "u", "l", "l", "_", "r", "e", "q", "u", "e", "s", "t">>, text |-> <<"o", "/", "r", "#", "4">>]
\* an anchor without data-hovercard-type
AnchorPlain ==
  [href |-> <<"h", "t", "t", "p", "s", ":", "/", "/", "g", "i", "t", "h", "u", "b", ".", "c", "o", "m", "/", "o", "/", "r", "/", "i", "s", "s", "u", "e", "s", "/", "6">>, hovercard |-> Null, text |-> <<"s", "i", "x">>]

Paragraph(t) == [tag |-> "p", text |-> t, anchors |-> <<>>]
List(as) == [tag |-> "ul", text |-> <<>>, anchors |-> as]

\* 'eta: 2023Q4'
EtaLine == <<"e", "t", "a", ":", " ", "2", "0", "2", "3", "Q", "4">>
\* the other title isValidChildren accepts
ChildrenTitle == <<"C", "h", "i", "l", "d", "r", "e", "n">>

\* rendered markup: a list with no heading, <p>children: </p> and its list
\* (the legacy convention), a list under a heading that is no children
\* heading, and a second children list
DocLegacy ==
  [malformed |-> FALSE,
   elements |-> <<List(<<AnchorPlain, AnchorIssue>>),
                  Paragraph(ChildrenHeader \o <<" ">>),
                  List(<<AnchorIssue, AnchorPlain, AnchorForeign, AnchorPull>>),
                  Paragraph(EtaLine),
                  List(<<AnchorIssue>>),
                  Paragraph(ChildrenTitle),
                  List(<<AnchorForeign, AnchorIssue>>)>>]
\* markup parseHTML throws on
DocMalformed == [malformed |-> TRUE, elements |-> <<>>]

\* markup with a children list and no ETA
DocNoEta ==
  [malformed |-> FALSE,
   elements |-> <<Paragraph(ChildrenHeader), List(<<AnchorIssue>>)>>]
\* the markup of an empty body
DocEmpty == [malformed |-> FALSE, elements |-> <<>>]

Docs == {DocLegacy, DocMalformed}

\* an anchor with a hovercard type and no href
AnchorNoHref ==
  [href |-> Null, hovercard |-> <<"i", "s", "s", "u", "e">>, text |-> <<"n">>]

\* the elements of the markup of SpecLegacy: <p>children: </p>,
\* <p>Children</p>, a paragraph that is no children heading, and two lists
ParChildren == Paragraph(ChildrenHeader \o <<" ">>)
ParTitle == Paragraph(ChildrenTitle)
ParOther == Paragraph(EtaLine)
ListA == List(<<AnchorIssue, AnchorPlain, AnchorForeign>>)
ListB == List(<<AnchorNoHref, AnchorPull, AnchorIssue, AnchorIssue>>)
LegacyElements == {ParChildren, ParTitle, ParOther, ListA, ListB}

\* the markup of the issues of SpecLegacy
LegacyDocs ==
  {[malformed |-> FALSE, elements |-> els] : els \in SeqsUpTo(LegacyElements, MaxElements)}

\* the markup of the issues of SpecDueDate
DueDateDocs == {DocLegacy, DocNoEta, DocEmpty, DocMalformed}

\* the canonical URL of issue 1 of owner/repo
UrlOfRepo(owner, repo) ==
  GithubBase \o owner \o <<"/">> \o repo \o IssuesSegment \o <<"1">>

Owners == {<<"o">>, <<"a", "c">>}
Repos == {<<"r">>, <<"b">>}

\* html_url of the issues of SpecDueDate and SpecResolve: null, '', canonical URLs
AnyHtmlUrls == {Null, <<>>} \cup {UrlOfRepo(o, r) : o \in Owners, r \in Repos}

\* issue.root_issue: true, false or undefined
RootIssueValues == {"true", "false", "undefined"}

\* the lines of SpecResolve: of the shape #N, nearly of that shape, short
\* references with owner and repo, absolute URLs, other tokens
LinePrefixes ==
  {<<>>, <<"#">>, <<"o", "/", "r", "#">>, <<"x", "#">>,
   GithubBase \o <<"o", "/", "r">> \o IssuesSegment,
   HttpsScheme \o <<"e", "v", "i", "l", ".", "i", "o", "/">>,
   HttpsScheme \o <<"m", "y">> \o GithubHost \o <<".", "i", "o", "/">>}
LineSuffixes == {<<>>, <<"7">>, <<"1", "2">>, <<"1", "a">>, <<"a", "1">>}
ResolveLines == {p \o x : p \in LinePrefixes, x \in LineSuffixes}

HtmlUrls == {IssueUrl, <<>>}

\* the lines of SpecUnwrap.  Lines without the token '](': two pieces each
PlainPieces ==
  {<<>>, <<"a">>, <<")">>, <<"(", "b", ")">>, <<"x", " ", "y">>, <<"#", "7">>}
PlainLines == {p \o q : p, q \in PlainPieces}

\* the markdown link '[label](url)'
MarkdownLink(label, url) ==
  <<"[">> \o label \o MarkdownLinkToken \o url \o <<")">>

LinkLabels == {<<"l">>, <<"a", " ", "b">>, <<"c", ")">>}
UrlPieces == {<<"u">>, <<")">>, <<"(", "v", ")">>, <<"/">>}
LinkUrls == {p \o q : p, q \in UrlPieces}
LinkLines == {MarkdownLink(l, u) : l \in LinkLabels, u \in LinkUrls}

UnwrapLines == PlainLines \cup LinkLines

NoResult == [ok |-> FALSE, err |-> "not called", val |-> <<>>]

(***************************************************************************)
(* src/pages/roadmap/[...slug].tsx: RoadmapPage, before it is mounted.     *)
(* The fields of the state hooks hold their initial values (lines 68-75).  *)
(***************************************************************************)
\* null, for an issue of the tree
NoIssueData == [html_url |-> Null, children |-> <<>>]
\* null, for an error
NoError == [code |-> "null", url |-> Null]
\* null or undefined, for the errors of a response
NoErrors == {"null"}

\* the values of the props and hooks no render has seen yet
NoSnapshot ==
  [slug |-> "null", isRootIssueLoading |-> FALSE, isPendingChildrenLoading |-> FALSE,
   pendingLength |-> 0, asyncLength |-> 0]

InitialPage ==
  [mounted |-> FALSE,
   slug |-> "a",
   navigations |-> 0,
   starMapsErrorsState |-> {},
   roadmapLoadErrorState |-> NoError,
   issueDataState |-> NoIssueData,
   pendingChildrenState |-> <<>>,
   asyncIssueDataState |-> <<>>,
   asyncChanged |-> FALSE,
   isRootIssueLoading |-> FALSE,
   isPendingChildrenLoading |-> FALSE,
   rendered |-> NoSnapshot,
   roadmapCleanup |-> FALSE,
   pendingChildCleanup |-> FALSE,
   fetches |-> <<>>,
   globalLoading |-> "initial",
   loadingCall |-> "none"]

\* a service worker with an empty cache, an empty contentHashDB and no call
\* of CacheChildren._handle
InitialWorker == [cache |-> <<>>, hashes |-> <<>>, calls |-> <<>>]

(***************************************************************************)
(* State: the issue record handed to the parser, and what the calls        *)
(* return.  parts is the sequence of fragments issue.body was made of;     *)
(* line is the line handed to getUrlStringForChildrenLine and resolution   *)
(* what the call hands to getValidUrlFromInput and what it returns, or the *)
(* line handed to getUrlFromMarkdownText and unwrapped what it returns;    *)
(* eta is what getDueDate returns and errors the entries of the            *)
(* errorManager.  page is the state of a RoadmapPage: the values of its    *)
(* hooks, the values its last render has seen, and the requests whose      *)
(* continuation has not run yet.  worker is the state of the service       *)
(* worker that runs the CacheChildren strategy: the cache, the hashes      *)
(* table of contentHashDB, and the calls of _handle with the position of   *)
(* each call and of its populateCacheAsync.                                *)
(***************************************************************************)
VARIABLES issue, parts, children, line, resolution, unwrapped, eta, errors, pc,
          page, worker

vars ==
  <<issue, parts, children, line, resolution, unwrapped, eta, errors, pc, page, worker>>

NoResolution == [candidate |-> Null, result |-> NoResult]

TypeOK ==
  /\ Len(parts) <= MaxBlockLines
  /\ issue.body = BodyOf(parts)
  /\ issue.body_html \in DueDateDocs \cup LegacyDocs
  /\ issue.html_url \in AnyHtmlUrls \cup HtmlUrls
  /\ issue.root_issue \in RootIssueValues
  /\ Len(errors) <= MaxErrors
  /\ pc \in {"ready", "done"}

\* the issues getChildren is called with
Init ==
  /\ parts \in SeqsUpTo(TextFragments, MaxLines)
  /\ issue \in [body : {BodyOf(parts)}, body_html : Docs, html_url : HtmlUrls,
                root_issue : {"false"}]
  /\ children = NoResult
  /\ line = <<>>
  /\ resolution = NoResolution
  /\ unwrapped = Null
  /\ page = InitialPage
  /\ worker = InitialWorker
  /\ eta = NoResult
  /\ errors = <<>>
  /\ pc = "ready"

\* bodies of tasklist blocks and 'children:' lists, of an issue with a canonical URL
InitBlocks ==
  /\ parts \in SeqsUpTo(BlockFragments, MaxBlockLines)
  /\ issue = [body |-> BodyOf(parts), body_html |-> DocLegacy,
              html_url |-> IssueUrl, root_issue |-> "false"]
  /\ children = NoResult
  /\ line = <<>>
  /\ resolution = NoResolution
  /\ unwrapped = Null
  /\ page = InitialPage
  /\ worker = InitialWorker
  /\ eta = NoResult
  /\ errors = <<>>
  /\ pc = "ready"

\* bodies with 'children:' at the start of a line, inside a line and in
\* another case
InitHeaders ==
  /\ parts \in SeqsUpTo(HeaderFragments, MaxHeaderLines)
  /\ issue = [body |-> BodyOf(parts), body_html |-> DocLegacy,
              html_url |-> IssueUrl, root_issue |-> "false"]
  /\ children = NoResult
  /\ line = <<>>
  /\ resolution = NoResolution
  /\ unwrapped = Null
  /\ page = InitialPage
  /\ worker = InitialWorker
  /\ eta = NoResult
  /\ errors = <<>>
  /\ pc = "ready"

\* issues with no convention in the body and rendered markup of every shape
InitLegacy ==
  /\ parts = <<>>
  /\ issue \in [body : {<<>>}, body_html : LegacyDocs, html_url : {IssueUrl},
                root_issue : {"false"}]
  /\ children = NoResult
  /\ line = <<>>
  /\ resolution = NoResolution
  /\ unwrapped = Null
  /\ page = InitialPage
  /\ worker = InitialWorker
  /\ eta = NoResult
  /\ errors = <<>>
  /\ pc = "ready"

\* the lines and issues getUrlStringForChildrenLine is called with
InitResolve ==
  /\ parts = <<>>
  /\ issue \in [body : {<<>>}, body_html : {DocEmpty}, html_url : AnyHtmlUrls,
                root_issue : {"false"}]
  /\ children = NoResult
  /\ line \in ResolveLines
  /\ resolution = NoResolution
  /\ unwrapped = Null
  /\ page = InitialPage
  /\ worker = InitialWorker
  /\ eta = NoResult
  /\ errors = <<>>
  /\ pc = "ready"

\* the lines getUrlFromMarkdownText is called with
InitUnwrap ==
  /\ parts = <<>>
  /\ issue = [body |-> <<>>, body_html |-> DocEmpty, html_url |-> IssueUrl,
              root_issue |-> "false"]
  /\ children = NoResult
  /\ line \in UnwrapLines
  /\ resolution = NoResolution
  /\ unwrapped = Null
  /\ page = InitialPage
  /\ worker = InitialWorker
  /\ eta = NoResult
  /\ errors = <<>>
  /\ pc = "ready"

\* the issues getDueDate is called with
InitDueDate ==
  /\ parts = <<>>
  /\ issue \in [body : {<<>>}, body_html : DueDateDocs, html_url : AnyHtmlUrls,
                root_issue : RootIssueValues]
  /\ children = NoResult
  /\ line = <<>>
  /\ resolution = NoResolution
  /\ unwrapped = Null
  /\ page = InitialPage
  /\ worker = InitialWorker
  /\ eta = NoResult
  /\ errors = <<>>
  /\ pc = "ready"

\* an entry the caller's errorManager holds before the calls
PriorEntry ==
  EtaErrorEntry([body |-> <<>>, body_html |-> DocEmpty, html_url |-> IssueUrl,
                 root_issue |-> "false"])

\* the bodies of the issues of SpecCollector
CollectorBodies ==
  {<<>>, <<FragChildrenHeader, FragUrl>>, <<FragChildrenHeader, FragShortRef>>}

\* the issues both entry points are called with, and the errorManager of
\* the caller, empty or not
InitCollector ==
  /\ parts \in CollectorBodies
  /\ issue \in [body : {BodyOf(parts)}, body_html : DueDateDocs,
                html_url : AnyHtmlUrls, root_issue : RootIssueValues]
  /\ children = NoResult
  /\ line = <<>>
  /\ resolution = NoResolution
  /\ unwrapped = Null
  /\ page = InitialPage
  /\ worker = InitialWorker
  /\ eta = NoResult
  /\ errors \in {<<>>, <<PriorEntry>>}
  /\ pc = "ready"

\* a call getChildren(issue)
GetChildren ==
  /\ pc = "ready"
  /\ children' = getChildren(issue)
  /\ pc' = "done"
  /\ UNCHANGED <<issue, parts, line, resolution, unwrapped, eta, errors, page, worker>>

\* a call getUrlStringForChildrenLine(line, issue)
Resolve ==
  /\ pc = "ready"
  /\ resolution' =
       [candidate |-> IF IsShortReference(line) /\ ~paramsFromUrl(issue.html_url).ok
                      THEN Null
                      ELSE ExpandedLine(line, issue),
        result |-> getUrlStringForChildrenLine(line, issue)]
  /\ pc' = "done"
  /\ UNCHANGED <<issue, parts, children, line, unwrapped, eta, errors, page, worker>>

\* a call getUrlFromMarkdownText(line)
Unwrap ==
  /\ pc = "ready"
  /\ unwrapped' = getUrlFromMarkdownText(line)
  /\ pc' = "done"
  /\ UNCHANGED <<issue, parts, children, line, resolution, eta, errors, page, worker>>

\* a call getDueDate(issue, errorManager), with the same errorManager each time
GetDueDate ==
  /\ Len(errors) < MaxErrors
  /\ eta' = getDueDate(issue, errors).result
  /\ errors' = getDueDate(issue, errors).errors
  /\ pc' = "done"
  /\ UNCHANGED <<issue, parts, children, line, resolution, unwrapped, page, worker>>

Next == GetChildren

Spec == Init /\ [][Next]_vars

SpecBlocks == InitBlocks /\ [][Next]_vars

SpecLegacy == InitLegacy /\ [][Next]_vars

SpecHeaders == InitHeaders /\ [][Next]_vars

NextResolve == Resolve

SpecResolve == InitResolve /\ [][NextResolve]_vars

NextUnwrap == Unwrap

SpecUnwrap == InitUnwrap /\ [][NextUnwrap]_vars

NextCollector == GetChildren \/ GetDueDate

SpecCollector == InitCollector /\ [][NextCollector]_vars

NextDueDate == GetDueDate

SpecDueDate == InitDueDate /\ [][NextDueDate]_vars

(***************************************************************************)
(* What the conventions of an issue body say of a sequence of fragments:   *)
(* which lines are candidates of each strategy, and the URL each denotes.  *)
(***************************************************************************)
\* 'https://github.com/o/r/issues/12', 'https://github.com/o/r/issues/5', ...
UrlOfIssue12 ==
  <<"h", "t", "t", "p", "s", ":", "/", "/", "g", "i", "t", "h", "u", "b", ".", "c", "o", "m", "/", "o", "/", "r", "/", "i", "s", "s", "u", "e", "s", "/", "1", "2">>
UrlOfIssue5 ==
  <<"h", "t", "t", "p", "s", ":", "/", "/", "g", "i", "t", "h", "u", "b", ".", "c", "o", "m", "/", "o", "/", "r", "/", "i", "s", "s", "u", "e", "s", "/", "5">>
UrlOfIssue8 ==
  <<"h", "t", "t", "p", "s", ":", "/", "/", "g", "i", "t", "h", "u", "b", ".", "c", "o", "m", "/", "o", "/", "r", "/", "i", "s", "s", "u", "e", "s", "/", "8">>
UrlOfIssue3 ==
  <<"h", "t", "t", "p", "s", ":", "/", "/", "g", "i", "t", "h", "u", "b", ".", "c", "o", "m", "/", "o", "/", "r", "/", "i", "s", "s", "u", "e", "s", "/", "3">>
UrlForeignAnchor ==
  <<"h", "t", "t", "p", "s", ":", "/", "/", "e", "v", "i", "l", ".", "i", "o", "/", "y">>

\* the fragments whose line starts with a dash
DashFragments == {FragShortRef, FragForeign, FragDashUrl}

\* the URL a candidate fragment denotes for an issue at html_url: a sequence
\* of one URL, empty when the fragment denotes no GitHub issue
DenotedUrl(f, html_url) ==
  IF f = FragShortRef THEN (IF html_url = IssueUrl THEN <<UrlOfIssue12>> ELSE <<>>)
  ELSE IF f = FragUrl THEN <<UrlOfIssue5>>
  ELSE IF f = FragDashUrl THEN <<UrlOfIssue8>>
  ELSE IF f = FragIndentedUrl THEN <<UrlOfIssue8>>
  ELSE IF f = FragHeaderWithRest THEN <<UrlOfIssue5>>
  ELSE <<>>

Resolves(f, html_url) == DenotedUrl(f, html_url) # <<>>

\* the fragments after the first occurrence of the header fragment hdr
AfterHeader(ps, hdr) ==
  LET at == {i \in 1..Len(ps) : ps[i] = hdr}
  IN  IF at = {} THEN <<>>
      ELSE SubSeq(ps, (CHOOSE i \in at : \A j \in at : i <= j) + 1, Len(ps))

\* the candidate lines of the tasklist strategy: the dash lines after the fence
TaskCandidates(ps) ==
  SelectSeq(AfterHeader(ps, FragTaskListHeader), LAMBDA f : f \in DashFragments)

\* the candidate lines of the 'children:' strategy: every line after the header
ChildCandidates(ps) == AfterHeader(ps, FragChildrenHeader)

\* the strategy whose result getChildren is to return
Strategy(ps) ==
  IF TaskCandidates(ps) # <<>> THEN "tasklist"
  ELSE IF ChildCandidates(ps) = <<>> THEN "legacy"
  ELSE IF \E i \in 1..Len(ChildCandidates(ps)) : ChildCandidates(ps)[i] = FragHtml
       THEN "legacy"
  ELSE "children:"

Candidates(ps) ==
  IF Strategy(ps) = "tasklist" THEN TaskCandidates(ps)
  ELSE IF Strategy(ps) = "children:" THEN ChildCandidates(ps)
  ELSE <<>>

GroupOf(ps) ==
  IF Strategy(ps) = "tasklist" THEN TaskListGroup ELSE ChildrenGroup

\* the length of the longest leading run of candidates that all resolve
LeadingRunLength(cs, html_url) ==
  LET runs == {n \in 0..Len(cs) : \A i \in 1..n : Resolves(cs[i], html_url)}
  IN  CHOOSE n \in runs : \A m \in runs : m <= n

\* the records of the first n candidates
RecordsOf(cs, n, html_url, group) ==
  [i \in 1..n |-> [group |-> group, html_url |-> DenotedUrl(cs[i], html_url)[1]]]

\* the host of an absolute URL: what lies between '://' and the next '/'
HostOf(url) ==
  LET rest == substring(url, indexOf(url, <<":", "/", "/">>) + 3)
  IN  SubSeq(rest, 1, indexOf(rest \o <<"/">>, <<"/">>) - 1)

\* the records the legacy convention denotes in DocLegacy: the issue anchors
\* of the two lists under a children heading, in document order
LegacyRecords ==
  <<[group |-> ChildrenHeader, html_url |-> UrlOfIssue3],
    [group |-> ChildrenHeader, html_url |-> UrlForeignAnchor],
    [group |-> ChildrenTitle, html_url |-> UrlForeignAnchor],
    [group |-> ChildrenTitle, html_url |-> UrlOfIssue3]>>

(***************************************************************************)
(* Properties of getChildren.                                              *)
(***************************************************************************)
\* C1: the text strategies return, without raising, exactly the resolutions
\* of the longest leading run of candidate lines that all resolve, in order:
\* the first line that fails ends the list.
C1_FirstFailureEndsList ==
  (pc = "done" /\ Strategy(parts) # "legacy") =>
    children = Return(RecordsOf(Candidates(parts),
                                LeadingRunLength(Candidates(parts), issue.html_url),
                                issue.html_url, GroupOf(parts)))

\* a list item, a line that fails, then a line that would resolve: one record
C1_Witness ==
  /\ pc = "done"
  /\ Strategy(parts) = "children:"
  /\ Len(Candidates(parts)) = 3
  /\ Resolves(Candidates(parts)[1], issue.html_url)
  /\ ~Resolves(Candidates(parts)[2], issue.html_url)
  /\ Resolves(Candidates(parts)[3], issue.html_url)
  /\ Len(children.val) = 1

\* C4 as stated: whenever the text attempt meets one of the three Errors,
\* an invalid child reference included, getChildren returns the result of
\* the legacy extractor.
C4_AnyErrorFallsBack ==
  (/\ pc = "done"
   /\ \/ Strategy(parts) = "legacy"
      \/ LeadingRunLength(Candidates(parts), issue.html_url) < Len(Candidates(parts)))
    => children = getChildrenFromHtml(issue.body_html)

\* C4 amended: whenever the text attempt fails, which it does with a missing
\* or empty section or with an HTML tag, getChildren returns the result of the
\* legacy extractor on issue.body_html.
C4_FailureFallsBack ==
  (pc = "done" /\ Strategy(parts) = "legacy") =>
    /\ getChildrenNew(issue).err \in {SectionMissing, HtmlTagsFound}
    /\ children = getChildrenFromHtml(issue.body_html)

\* the text attempt has failed and the legacy extractor has returned records
C4_Witness ==
  /\ pc = "done"
  /\ Strategy(parts) = "legacy"
  /\ parts # <<>>
  /\ children.ok
  /\ children.val # <<>>

\* C5: with neither a tasklist fence nor 'children:' in the body, getChildren
\* returns one record per issue anchor of each list under a children heading,
\* its group the trimmed heading and its html_url the anchor's href.
C5_LegacyRecords ==
  (/\ pc = "done"
   /\ \A i \in 1..Len(parts) :
        parts[i] \notin {FragTaskListHeader, FragChildrenHeader}
   /\ issue.body_html = DocLegacy)
    => children = Return(LegacyRecords)

C5_Witness ==
  /\ pc = "done"
  /\ Len(parts) >= 2
  /\ \A i \in 1..Len(parts) :
       parts[i] \notin {FragTaskListHeader, FragChildrenHeader}
  /\ issue.body_html = DocLegacy
  /\ Len(children.val) = 4

\* C6 as stated: whenever any line after 'children:' begins with '<',
\* getChildren returns the legacy result.
C6_AnyHtmlLineFallsBack ==
  (/\ pc = "done"
   /\ \E i \in 1..Len(ChildCandidates(parts)) : ChildCandidates(parts)[i] = FragHtml)
    => children = getChildrenFromHtml(issue.body_html)

\* C6 amended: when the tasklist attempt has failed (no dash line follows a
\* tasklist fence) and any candidate line of the 'children:' section begins
\* with '<', the extraction throws 'HTML tags found' and getChildren returns
\* the legacy result, even when the lines before that line resolve.
C6_HtmlLineFallsBack ==
  (/\ pc = "done"
   /\ TaskCandidates(parts) = <<>>
   /\ \E i \in 1..Len(ChildCandidates(parts)) : ChildCandidates(parts)[i] = FragHtml)
    => /\ getChildrenNew(issue) = Throw(HtmlTagsFound)
       /\ children = getChildrenFromHtml(issue.body_html)

\* a line that resolves comes before the line that begins with '<'
C6_Witness ==
  /\ pc = "done"
  /\ TaskCandidates(parts) = <<>>
  /\ Len(ChildCandidates(parts)) >= 2
  /\ Resolves(ChildCandidates(parts)[1], issue.html_url)
  /\ ChildCandidates(parts)[2] = FragHtml
  /\ children = Return(LegacyRecords)

\* C10: every record a text strategy returns has an html_url whose host
\* contains 'github.com'.
C10_GithubHostsOnly ==
  (pc = "done" /\ Strategy(parts) # "legacy") =>
    \A i \in 1..Len(children.val) :
      includes(HostOf(children.val[i].html_url), GithubHost)

\* a record is returned and a candidate line names another host
C10_Witness ==
  /\ pc = "done"
  /\ Strategy(parts) # "legacy"
  /\ children.val # <<>>
  /\ \E i \in 1..Len(Candidates(parts)) : Candidates(parts)[i] = FragForeign

(***************************************************************************)
(* Properties of getChildren on tasklist blocks and 'children:' lists      *)
(* (SpecBlocks).                                                           *)
(***************************************************************************)
\* ps[i..j] is a fenced tasklist block: the opening fence, one or more
\* checkbox lines that all resolve, the closing fence
FencedBlock(ps, i, j) ==
  /\ 1 <= i
  /\ i + 1 < j
  /\ j <= Len(ps)
  /\ ps[i] = FragTaskListHeader
  /\ ps[j] = FragFence
  /\ \A k \in (i + 1)..(j - 1) :
       ps[k] \in DashFragments /\ Resolves(ps[k], IssueUrl)

\* the records of the lines of the block ps[i..j]
BlockRecords(ps, i, j) ==
  RecordsOf(SubSeq(ps, i + 1, j - 1), j - i - 1, IssueUrl, TaskListGroup)

\* the dash lines after position j
DashLinesAfter(ps, j) ==
  SelectSeq(SubSeq(ps, j + 1, Len(ps)), LAMBDA f : f \in DashFragments)

\* C2 as stated: a body that contains a fenced tasklist block of N resolving
\* checkbox lines yields exactly the N records of the block, whatever
\* precedes or follows it.
C2_ExactlyTheBlock ==
  pc = "done" =>
    \A i, j \in 1..Len(parts) :
      FencedBlock(parts, i, j) => children = Return(BlockRecords(parts, i, j))

\* C2 amended: when the first tasklist fence of the body opens a block of N
\* resolving checkbox lines, the records are all labelled 'tasklist' and the
\* first N are the block's lines in order; they are followed by the
\* resolutions of the dash lines after the closing fence, up to the first
\* that fails, so that there are exactly N only when no such line resolves.
C2_BlockThenFollowingLines ==
  pc = "done" =>
    \A i, j \in 1..Len(parts) :
      (FencedBlock(parts, i, j) /\ \A k \in 1..(i - 1) : parts[k] # FragTaskListHeader)
        => LET after == DashLinesAfter(parts, j)
               n == LeadingRunLength(after, issue.html_url)
           IN  children = Return(BlockRecords(parts, i, j)
                                   \o RecordsOf(after, n, issue.html_url, TaskListGroup))

\* text before the block, and a dash line after its closing fence
C2_Witness ==
  /\ pc = "done"
  /\ FencedBlock(parts, 2, 4)
  /\ parts[1] # FragTaskListHeader
  /\ Len(parts) = 5
  /\ Len(children.val) = 2

\* a tasklist block of k lines '- [ ] #12'
TaskBlockOf(k) ==
  <<FragTaskListHeader>> \o [i \in 1..k |-> FragShortRef] \o <<FragFence>>

\* a 'children:' list of m lines '- https://github.com/o/r/issues/8'
ChildrenListOf(m) == <<FragChildrenHeader>> \o [i \in 1..m |-> FragDashUrl]

RepeatRecord(url, n) == [i \in 1..n |-> [group |-> TaskListGroup, html_url |-> url]]

\* C3 as stated: with a tasklist block and a 'children:' list in the body, in
\* either order, no record is labelled 'children:' and none comes from a line
\* of the 'children:' list.
C3_ChildrenIgnored ==
  pc = "done" =>
    \A k, m \in 1..Len(parts) :
      parts \in {TaskBlockOf(k) \o ChildrenListOf(m), ChildrenListOf(m) \o TaskBlockOf(k)}
        => /\ children.ok
           /\ \A i \in 1..Len(children.val) :
                /\ children.val[i].group # ChildrenGroup
                /\ children.val[i].html_url # UrlOfIssue8

\* C3 amended: with both in the body, every record is labelled 'tasklist' and
\* none 'children:'; the lines of a 'children:' list that precedes the block are
\* ignored, and the dash lines of one that follows the block are returned after
\* the block's lines, labelled 'tasklist'.
C3_TaskListPrecedence ==
  pc = "done" =>
    /\ Strategy(parts) = "tasklist" =>
         /\ children.ok
         /\ \A i \in 1..Len(children.val) : children.val[i].group = TaskListGroup
    /\ \A k, m \in 1..Len(parts) :
         /\ parts = ChildrenListOf(m) \o TaskBlockOf(k)
              => children = Return(RepeatRecord(UrlOfIssue12, k))
         /\ parts = TaskBlockOf(k) \o ChildrenListOf(m)
              => children = Return(RepeatRecord(UrlOfIssue12, k)
                                     \o RepeatRecord(UrlOfIssue8, m))

\* the 'children:' list comes first and only the block's line is returned
C3_Witness ==
  /\ pc = "done"
  /\ parts = ChildrenListOf(1) \o TaskBlockOf(1)
  /\ children = Return(RepeatRecord(UrlOfIssue12, 1))

(***************************************************************************)
(* Properties of getUrlStringForChildrenLine (SpecResolve).                *)
(***************************************************************************)
\* the lines that are a hash mark followed by digits and nothing else
HashDigitLines == {<<"#", "7">>, <<"#", "1", "2">>}

\* C7: a line #N is handed to the URL validation as owner/repo#N, owner and
\* repo being those of issue.html_url, and resolves to issue N of that
\* repository; a line of any other shape is handed over unchanged.
C7_ShortReferenceExpanded ==
  pc = "done" =>
    IF line \in HashDigitLines
    THEN \A o \in Owners, r \in Repos :
           issue.html_url = UrlOfRepo(o, r) =>
             /\ resolution.candidate = o \o <<"/">> \o r \o line
             /\ resolution.result =
                  Return(GithubBase \o o \o <<"/">> \o r \o IssuesSegment \o Tail(line))
    ELSE resolution.candidate = line

\* '#12' has been resolved for an issue of a/c's repository b
C7_Witness ==
  /\ pc = "done"
  /\ line = <<"#", "1", "2">>
  /\ issue.html_url = UrlOfRepo(<<"a", "c">>, <<"b">>)
  /\ resolution.result.ok

(***************************************************************************)
(* Properties of getDueDate (SpecDueDate).                                 *)
(***************************************************************************)
\* the markup with no ETA in it
NoEtaDocs == {DocNoEta, DocEmpty}

\* the ETA of a markup that parses
EtaOf(doc) == IF doc \in NoEtaDocs THEN <<>> ELSE <<"2", "0", "2", "3", "Q", "4">>

\* C8 as stated: when the scanner fails, one entry is added only when
\* html_url is non-empty and root_issue is not true; the collector is left
\* unchanged in every other case, html_url = '' included.
C8_ReportedUnlessEmptyUrlOrRoot ==
  [][errors' =
       IF /\ issue.body_html \in NoEtaDocs
          /\ issue.html_url \notin {Null, <<>>}
          /\ issue.root_issue # "true"
       THEN Append(errors, EtaErrorEntry(issue))
       ELSE errors]_vars

\* C8 amended: when the scanner fails, one entry ('#eta', 'ETA not found',
\* 'ETA not found in issue body') is added only when html_url is not null
\* (the empty string included) and root_issue is not true; the collector
\* is left unchanged in every other case.
C8_ReportedUnlessNullUrlOrRoot ==
  [][errors' =
       IF /\ issue.body_html \in NoEtaDocs
          /\ issue.html_url # Null
          /\ issue.root_issue # "true"
       THEN Append(errors,
                   [issue |-> issue,
                    userGuideSection |-> "#eta",
                    errorTitle |-> "ETA not found",
                    errorMessage |-> "ETA not found in issue body"])
       ELSE errors]_vars

\* the scanner has failed for an issue whose html_url is '': one entry
C8_Witness ==
  /\ pc = "done"
  /\ issue.body_html \in NoEtaDocs
  /\ issue.html_url = <<>>
  /\ issue.root_issue = "undefined"
  /\ Len(errors) = 1

TextErrors ==
  {SectionMissing, HtmlTagsFound, InvalidHost, InvalidUrl, CouldNotParseUrl}

\* C11: getChildren throws only when the legacy extraction throws, and then
\* its Error: no Error of the tasklist strategy, of the 'children:' strategy
\* or of the resolution of a line reaches the caller.
C11_OnlyLegacyErrorsEscape ==
  (pc = "done" /\ ~children.ok) =>
    /\ children.err \notin TextErrors
    /\ Strategy(parts) = "legacy"
    /\ issue.body_html.malformed
    /\ children = Throw(ParseHtmlFailed)

\* the 'children:' strategy has thrown on an HTML tag after a line that
\* fails to resolve, and the Error of the legacy extraction is the one thrown
C11_Witness ==
  /\ pc = "done"
  /\ Len(ChildCandidates(parts)) >= 2
  /\ ~Resolves(ChildCandidates(parts)[1], issue.html_url)
  /\ getChildrenNew(issue) = Throw(HtmlTagsFound)
  /\ children = Throw(ParseHtmlFailed)

\* C12: a header that is absent and a header that no candidate line follows
\* are alike: the tasklist strategy throws 'Section missing or has no
\* children' and getChildrenNew returns what the 'children:' strategy
\* returns; the 'children:' strategy throws the same Error and getChildren
\* returns what the legacy extractor returns.
C12_AbsentAndEmptyAlike ==
  pc = "done" =>
    /\ TaskCandidates(parts) = <<>> =>
         /\ getChildrenFromTaskList(issue) = Throw(SectionMissing)
         /\ getChildrenNew(issue) = ChildrenOfLines(ChildrenLines(issue), issue)
    /\ (TaskCandidates(parts) = <<>> /\ ChildCandidates(parts) = <<>>) =>
         /\ getChildrenNew(issue) = Throw(SectionMissing)
         /\ children = getChildrenFromHtml(issue.body_html)

\* both headers are in the body, no dash line follows the fence and no line
\* follows 'children:': the legacy records are returned
C12_Witness ==
  /\ pc = "done"
  /\ \E i \in 1..Len(parts) : parts[i] = FragTaskListHeader
  /\ Len(parts) >= 2
  /\ parts[Len(parts)] = FragChildrenHeader
  /\ TaskCandidates(parts) = <<>>
  /\ ChildCandidates(parts) = <<>>
  /\ children = Return(LegacyRecords)

\* the URLs of the anchors of the markup: no line of a body denotes them
LegacyUrls == {UrlOfIssue3, UrlForeignAnchor}

\* C13: getChildren returns the result of one strategy.  When a text strategy
\* succeeds, every record carries that strategy's label, the result is the
\* same whatever body_html is, and no record comes from body_html; when both
\* have failed, the result is the legacy extractor's.
C13_OneStrategyNoMerging ==
  pc = "done" =>
    IF Strategy(parts) # "legacy"
    THEN /\ children.ok
         /\ \A i \in 1..Len(children.val) :
              /\ children.val[i].group = GroupOf(parts)
              /\ children.val[i].html_url \notin LegacyUrls
         /\ \A d \in Docs : getChildren([issue EXCEPT !.body_html = d]) = children
    ELSE children = getChildrenFromHtml(issue.body_html)

\* a text strategy has returned two records for an issue whose body_html has
\* children lists
C13_Witness ==
  /\ pc = "done"
  /\ Strategy(parts) # "legacy"
  /\ issue.body_html = DocLegacy
  /\ Len(children.val) = 2

\* the position of the first tasklist fence of the body
FirstTaskListHeader(ps) ==
  CHOOSE h \in 1..Len(ps) :
    ps[h] = FragTaskListHeader /\ \A j \in 1..(h - 1) : ps[j] # FragTaskListHeader

\* C18: the tasklist strategy keeps the lines that begin with '-', from the
\* header to the end of the text.  Every other line after the header (a URL
\* on a line of its own, the closing fence, a line '<p>', 'children:') is
\* removed before resolution: it yields no record and does not end the list.
C18_OnlyDashLinesToTheEnd ==
  (/\ pc = "done"
   /\ \E h \in 1..Len(parts) : parts[h] = FragTaskListHeader
   /\ DashLinesAfter(parts, FirstTaskListHeader(parts)) # <<>>)
    => LET kept == DashLinesAfter(parts, FirstTaskListHeader(parts))
       IN  children = Return(RecordsOf(kept, LeadingRunLength(kept, issue.html_url),
                                       issue.html_url, TaskListGroup))

\* a URL on a line of its own and the closing fence come between the header
\* and the one checkbox line: one record, of the checkbox line
C18_Witness ==
  /\ pc = "done"
  /\ parts = <<FragTaskListHeader, FragUrl, FragFence, FragShortRef>>
  /\ issue.html_url = IssueUrl
  /\ children = Return(<<[group |-> TaskListGroup, html_url |-> UrlOfIssue12]>>)

\* C16: no uniqueness is enforced.  A text strategy returns as many records
\* as lines were resolved before the list ended, and lines that denote the
\* same URL each have their record; the legacy strategy returns one record
\* per qualifying anchor, those with the same href included.
C16_DuplicatesPreserved ==
  (pc = "done" /\ children.ok) =>
    IF Strategy(parts) # "legacy"
    THEN /\ Len(children.val) = LeadingRunLength(Candidates(parts), issue.html_url)
         /\ \A i, j \in 1..Len(children.val) :
              Candidates(parts)[i] = Candidates(parts)[j]
                => children.val[i] = children.val[j]
    ELSE /\ Len(children.val) = Len(LegacyRecords)
         /\ children.val[1].html_url = children.val[4].html_url

\* three lines that denote the same issue have been resolved: three records
C16_Witness ==
  /\ pc = "done"
  /\ Strategy(parts) # "legacy"
  /\ Len(children.val) = 3
  /\ children.val[1] = children.val[2]
  /\ children.val[2] = children.val[3]

(***************************************************************************)
(* The errorManager under both entry points (SpecCollector).               *)
(***************************************************************************)
\* C22: when the ETA scanner returns, getDueDate returns its value as eta
\* and leaves the errorManager as it was, whatever html_url and root_issue
\* are; a call of getChildren leaves the errorManager as it was.
C22_CollectorUntouched ==
  [][/\ issue.body_html \notin NoEtaDocs \cup {DocMalformed}
          => /\ errors' = errors
             /\ eta' # eta => eta' = Return([eta |-> <<"2", "0", "2", "3", "Q", "4">>])
     /\ children' # children => errors' = errors]_vars

\* an issue with an ETA, a URL and no root flag, and an errorManager with an
\* entry: both calls have returned and the entry is still the only one
C22_Witness ==
  /\ pc = "done"
  /\ issue.body_html = DocLegacy
  /\ issue.html_url = UrlOfRepo(<<"o">>, <<"r">>)
  /\ issue.root_issue = "false"
  /\ children.ok /\ Len(children.val) = 1
  /\ eta = Return([eta |-> <<"2", "0", "2", "3", "Q", "4">>])
  /\ errors = <<PriorEntry>>

(***************************************************************************)
(* Properties of the legacy strategy (SpecLegacy).                         *)
(***************************************************************************)
\* the title a paragraph gives the list after it, if it is a children heading
TitleOf(el) ==
  IF el = ParChildren THEN <<ChildrenHeader>>
  ELSE IF el = ParTitle THEN <<ChildrenTitle>>
  ELSE <<>>

\* the hrefs of the anchors of a list that have an href and a hovercard type
\* containing 'issue', in document order
IssueHrefsOf(el) ==
  IF el = ListA THEN <<UrlOfIssue3, UrlForeignAnchor>>
  ELSE IF el = ListB THEN <<UrlOfIssue3, UrlOfIssue3>>
  ELSE <<>>

\* the list els[k] comes right after a children heading
UnderHeading(els, k) == k > 1 /\ TitleOf(els[k - 1]) # <<>>

\* C14: the legacy strategy returns an anchor's href as it is, with no look
\* at its host: the issue anchor of a retained list whose href is not on
\* GitHub yields a record with that href.
C14_LegacyHrefVerbatim ==
  pc = "done" =>
    /\ children.ok
    /\ ~includes(HostOf(AnchorForeign.href), GithubHost)
    /\ \A k \in 1..Len(issue.body_html.elements) :
         (issue.body_html.elements[k] = ListA /\ UnderHeading(issue.body_html.elements, k))
           => \E i \in 1..Len(children.val) :
                children.val[i] = [group |-> TitleOf(issue.body_html.elements[k - 1])[1],
                                   html_url |-> AnchorForeign.href]
    /\ \A i \in 1..Len(children.val) :
         children.val[i].html_url \in {AnchorIssue.href, AnchorForeign.href}

\* a list under 'Children' with an anchor to another host: its record
C14_Witness ==
  /\ pc = "done"
  /\ issue.body_html.elements = <<ParTitle, ListA>>
  /\ children.val[2] = [group |-> ChildrenTitle, html_url |-> UrlForeignAnchor]

\* the records of the anchors that qualify: those with an href and an issue
\* hovercard type, of the lists right after a children heading
QualifyingRecords(els) ==
  flat([k \in 1..Len(els) |->
          IF UnderHeading(els, k)
          THEN [j \in 1..Len(IssueHrefsOf(els[k])) |->
                  [group |-> TitleOf(els[k - 1])[1],
                   html_url |-> IssueHrefsOf(els[k])[j]]]
          ELSE <<>>])

\* C20: in the legacy strategy an anchor yields a record if and only if it
\* has an href and a hovercard type containing 'issue' and lies in a list
\* whose previous sibling's trimmed text is a children heading; a list with
\* another title, or with no previous sibling, contributes nothing.
C20_QualifyingAnchorsOnly ==
  pc = "done" =>
    /\ children = Return(QualifyingRecords(issue.body_html.elements))
    /\ (\A k \in 1..Len(issue.body_html.elements) :
          ~UnderHeading(issue.body_html.elements, k)) => children = Return(<<>>)

\* a list with no previous sibling, a heading, and a list of which two
\* anchors of four qualify
C20_Witness ==
  /\ pc = "done"
  /\ issue.body_html.elements = <<ListA, ParChildren, ListB>>
  /\ Len(children.val) = 2

\* the number of records the lists els[1..k] yield
RECURSIVE RecordsBefore(_, _)
RecordsBefore(els, k) ==
  IF k = 0 THEN 0
  ELSE RecordsBefore(els, k - 1)
         + (IF UnderHeading(els, k) THEN Len(IssueHrefsOf(els[k])) ELSE 0)

\* C21: the legacy strategy returns its records list by list, the lists in
\* document order, and within a list anchor by anchor in document order:
\* the records of a retained list stand right after those of the lists
\* before it, each with the list's title as group.
C21_ListThenAnchorOrder ==
  pc = "done" =>
    /\ children.ok
    /\ Len(children.val) = RecordsBefore(issue.body_html.elements,
                                         Len(issue.body_html.elements))
    /\ \A k \in 1..Len(issue.body_html.elements) :
         UnderHeading(issue.body_html.elements, k) =>
           \A j \in 1..Len(IssueHrefsOf(issue.body_html.elements[k])) :
             children.val[RecordsBefore(issue.body_html.elements, k - 1) + j] =
               [group |-> TitleOf(issue.body_html.elements[k - 1])[1],
                html_url |-> IssueHrefsOf(issue.body_html.elements[k])[j]]

\* two retained lists with different titles: the two records of the first,
\* then the two of the second
C21_Witness ==
  /\ pc = "done"
  /\ issue.body_html.elements = <<ParTitle, ListA, ParChildren, ListB>>
  /\ children = Return(<<[group |-> ChildrenTitle, html_url |-> UrlOfIssue3],
                         [group |-> ChildrenTitle, html_url |-> UrlForeignAnchor],
                         [group |-> ChildrenHeader, html_url |-> UrlOfIssue3],
                         [group |-> ChildrenHeader, html_url |-> UrlOfIssue3]>>)

(***************************************************************************)
(* Properties of getUrlFromMarkdownText (SpecUnwrap).                      *)
(***************************************************************************)
\* C17: the unwrap leaves a line without the token '](' as it is and, for a
\* line '[label](url)', yields exactly url: only the closing ')' is removed.
C17_UnwrapExact ==
  pc = "done" =>
    /\ line \in PlainLines => unwrapped = line
    /\ \A l \in LinkLabels, u \in LinkUrls :
         line = MarkdownLink(l, u) => unwrapped = u

(***************************************************************************)
(* Properties of the 'children:' header (SpecHeaders).                     *)
(***************************************************************************)
\* the lines with the substring 'children:' in them
LinesWithHeader == {FragChildrenHeader, FragHeaderWithRest}

\* the lines after the first line with 'children:' in it
SectionAfterHeader(ps) ==
  LET at == {i \in 1..Len(ps) : ps[i] \in LinesWithHeader}
  IN  IF at = {} THEN <<>>
      ELSE SubSeq(ps, (CHOOSE i \in at : \A j \in at : i <= j) + 1, Len(ps))

\* C19: the 'children:' strategy reads the lines after the first occurrence
\* of 'children:' and nothing else: what follows the header on its own line
\* is discarded, a later 'children:' is a line like any other and starts no
\* section, and 'Children:' is no header.  With no line after the header the
\* legacy result is returned.
C19_FirstHeaderOnly ==
  pc = "done" =>
    LET section == SectionAfterHeader(parts)
    IN  IF section = <<>> THEN children = Return(LegacyRecords)
        ELSE children =
               Return(RecordsOf(section, LeadingRunLength(section, issue.html_url),
                                issue.html_url, ChildrenGroup))

\* 'Children:', then a line with 'children:' and a URL, a list item and
\* 'children:' again: the record of the list item alone
C19_Witness ==
  /\ pc = "done"
  /\ parts = <<FragCapitalHeader, FragHeaderWithRest, FragDashUrl, FragChildrenHeader>>
  /\ children = Return(<<[group |-> ChildrenGroup, html_url |-> UrlOfIssue8]>>)

(***************************************************************************)
(* src/pages/roadmap/[...slug].tsx: RoadmapPage.                           *)
(* A render reads the props and the useState values; the effects of the    *)
(* render whose dependencies have changed run together after it, first     *)
(* their cleanups and then their bodies, in the order of the source.  The  *)
(* useState values an effect reads are those of its render; the hookstate  *)
(* values are read from the store.  A request is in page.fetches from the  *)
(* fetch call until the code after the await has run.                      *)
(***************************************************************************)
\* the most pending children in the response of /api/roadmap
MaxPending == 3
\* the most changes of the props (the router moves to another roadmap)
MaxNavigations == 2

\* the root issue of the roadmap the props name, and its direct child
RootOf(slug) == IF slug = "a" THEN IssueUrl ELSE UrlOfIssue12
DirectChildOf(slug) == IF slug = "a" THEN UrlOfIssue3 ELSE UrlOfIssue8

IssueNode(url, kids) == [html_url |-> url, children |-> kids]

\* roadmapResponseSuccess.data
RoadmapData(slug) ==
  IssueNode(RootOf(slug), <<IssueNode(DirectChildOf(slug), <<>>)>>)

\* a pending child of a direct child of the root
KidPlain == [html_url |-> UrlOfIssue5, parentHtmlUrl |-> UrlOfIssue3]
\* a pending child whose parent is not in the tree
KidOrphan == [html_url |-> UrlOfIssue8, parentHtmlUrl |-> UrlOfIssue12]
\* a pending child with no html_url
KidNoUrl == [html_url |-> Null, parentHtmlUrl |-> UrlOfIssue3]
\* a pending child whose html_url is the href of an anchor to another host
KidForeign == [html_url |-> UrlForeignAnchor, parentHtmlUrl |-> UrlOfIssue3]
\* a pending child of the second roadmap
KidSecond == [html_url |-> UrlOfIssue5, parentHtmlUrl |-> UrlOfIssue8]

\* paramsFromUrl (line 144) of the html_url of each pending child
PendingUrls == {UrlOfIssue5, UrlOfIssue8, UrlForeignAnchor}
paramsOfPending == [url \in PendingUrls |-> paramsFromUrl(url)]

\* roadmapResponseSuccess.pendingChildren
PendingLists(slug) ==
  IF slug = "a"
  THEN SeqsUpTo({KidPlain, KidOrphan, KidNoUrl, KidForeign}, MaxPending)
  ELSE {<<>>, <<KidSecond>>}

\* the payloads of /api/roadmap: success and failure
RoadmapResponses(slug) ==
  {[error |-> NoError, errors |-> {"roadmap"}, data |-> RoadmapData(slug),
    pendingChildren |-> l] : l \in PendingLists(slug)}
    \cup {[error |-> [code |-> "roadmap failed", url |-> RootOf(slug)],
           errors |-> NoErrors, data |-> NoIssueData, pendingChildren |-> <<>>]}

\* the payloads of /api/pendingChild for a child: success and failure
PendingChildResponses(child) ==
  {[error |-> NoError,
    errors |-> IF child.html_url = UrlOfIssue5 THEN {"child"} ELSE {},
    data |-> IssueNode(child.html_url, <<>>)],
   [error |-> [code |-> "child failed", url |-> child.html_url],
    errors |-> {}, data |-> NoIssueData]}

\* no payload: fetch has thrown
NoResponse == [error |-> NoError, errors |-> NoErrors, data |-> NoIssueData]

\* the ways an awaited fetch ends when it has not been aborted
Outcomes(responses) ==
  {[kind |-> "response", response |-> r] : r \in responses}
    \cup {[kind |-> "thrown", response |-> NoResponse]}

\* the way it ends when it has been: fetch rejects with an AbortError
Aborted == [kind |-> "AbortError", response |-> NoResponse]

\* the error of the catch clauses (lines 108 and 170)
ErrorFetching(url) == [code |-> "Error fetching", url |-> url]

\* findIssueDataByUrl(issueData, url), whose code is outside src/: the issue
\* of the tree with that html_url, the root or one of its children
RECURSIVE FirstWithUrl(_, _, _)
FirstWithUrl(nodes, url, i) ==
  IF i > Len(nodes) THEN 0
  ELSE IF nodes[i].html_url = url THEN i
  ELSE FirstWithUrl(nodes, url, i + 1)

findIssueDataByUrl(issueData, url) ==
  IF issueData = NoIssueData THEN NoIssueData
  ELSE IF issueData.html_url = url THEN issueData
  ELSE IF FirstWithUrl(issueData.children, url, 1) = 0 THEN NoIssueData
  ELSE issueData.children[FirstWithUrl(issueData.children, url, 1)]

\* the values a render reads
Snapshot(p) ==
  [slug |-> p.slug,
   isRootIssueLoading |-> p.isRootIssueLoading,
   isPendingChildrenLoading |-> p.isPendingChildrenLoading,
   pendingLength |-> Len(p.pendingChildrenState),
   asyncLength |-> Len(p.asyncIssueDataState)]

\* the dependencies of the four effects have changed since the last render
\* (lines 122, 184, 212 and 225); on mount every effect runs
RoadmapDeps(p) == ~p.mounted \/ p.slug # p.rendered.slug

PendingChildDeps(p) ==
  \/ RoadmapDeps(p)
  \/ p.isRootIssueLoading # p.rendered.isRootIssueLoading
  \/ Len(p.pendingChildrenState) # p.rendered.pendingLength

MergeDeps(p) == ~p.mounted \/ p.asyncChanged

LoadingDeps(p) ==
  \/ ~p.mounted
  \/ p.isRootIssueLoading # p.rendered.isRootIssueLoading
  \/ Len(p.pendingChildrenState) # p.rendered.pendingLength
  \/ Len(p.asyncIssueDataState) # p.rendered.asyncLength

\* a state set since the last render makes the component render again
NeedsRender(p) ==
  \/ Snapshot(p) # p.rendered
  \/ p.asyncChanged

\* controller.abort() of the effect run that has started the request
AbortControlled(fetches, kind) ==
  [i \in 1..Len(fetches) |->
     IF fetches[i].kind = kind /\ fetches[i].controlled
     THEN [fetches[i] EXCEPT !.aborted = TRUE, !.controlled = FALSE]
     ELSE fetches[i]]

\* an aborted fetch rejects at once: its continuation runs before a render
\* or the continuation of another request
AbortPending(p) == \E i \in 1..Len(p.fetches) : p.fetches[i].aborted

\* a render that is due takes place before the router or the network is
\* heard of again
Settled(p) == p.mounted /\ ~AbortPending(p) /\ ~NeedsRender(p)

\* lines 115-119
RoadmapCleanup(run, p) ==
  IF ~(run /\ p.roadmapCleanup) THEN p
  ELSE [p EXCEPT !.fetches = AbortControlled(@, "roadmap"),
                 !.isRootIssueLoading = FALSE,
                 !.roadmapCleanup = FALSE]

\* lines 178-182
PendingChildCleanup(run, p) ==
  IF ~(run /\ p.pendingChildCleanup) THEN p
  ELSE [p EXCEPT !.fetches = AbortControlled(@, "pendingChild"),
                 !.isPendingChildrenLoading = FALSE,
                 !.pendingChildCleanup = FALSE]

\* lines 77-114, up to the await
RoadmapEffect(run, p) ==
  IF ~run \/ p.rendered.isRootIssueLoading \/ p.rendered.slug = "null" THEN p
  ELSE [p EXCEPT !.isRootIssueLoading = TRUE,
                 !.fetches = Append(@, [kind |-> "roadmap",
                                        slug |-> p.rendered.slug,
                                        child |-> NoIssueData,
                                        parent |-> NoIssueData,
                                        aborted |-> FALSE,
                                        controlled |-> TRUE]),
                 !.roadmapCleanup = TRUE]

\* a variant of PendingChildEffect: no look at isPendingChildrenLoading
PendingChildEffect_NoGuard(run, p) ==
  IF ~run THEN p
  ELSE IF p.pendingChildrenState = <<>> THEN p
  ELSE IF Head(p.pendingChildrenState).html_url = Null
  THEN [p EXCEPT !.pendingChildrenState = Tail(@)]
  ELSE IF ~paramsOfPending[Head(p.pendingChildrenState).html_url].ok
  THEN [p EXCEPT !.isPendingChildrenLoading = TRUE,
                 !.pendingChildCleanup = TRUE]
  ELSE [p EXCEPT !.isPendingChildrenLoading = TRUE,
                 !.fetches =
                    Append(@, [kind |-> "pendingChild",
                               slug |-> p.rendered.slug,
                               child |-> Head(p.pendingChildrenState),
                               parent |-> findIssueDataByUrl(
                                            p.issueDataState,
                                            Head(p.pendingChildrenState).parentHtmlUrl),
                               aborted |-> FALSE,
                               controlled |-> TRUE]),
                 !.pendingChildCleanup = TRUE]

\* lines 124-177, up to the await.  An Error of paramsFromUrl (line 144) is
\* thrown outside the try block: the promise of fetchPendingChildren is
\* rejected with no request made, after setIsPendingChildrenLoading(true).
PendingChildEffect(run, p) ==
  IF ~run \/ p.rendered.isPendingChildrenLoading THEN p
  ELSE IF p.pendingChildrenState = <<>> THEN p
  ELSE IF Head(p.pendingChildrenState).html_url = Null
  THEN [p EXCEPT !.pendingChildrenState = Tail(@)]
  ELSE IF ~paramsOfPending[Head(p.pendingChildrenState).html_url].ok
  THEN [p EXCEPT !.isPendingChildrenLoading = TRUE,
                 !.pendingChildCleanup = TRUE]
  ELSE [p EXCEPT !.isPendingChildrenLoading = TRUE,
                 !.fetches =
                    Append(@, [kind |-> "pendingChild",
                               slug |-> p.rendered.slug,
                               child |-> Head(p.pendingChildrenState),
                               parent |-> findIssueDataByUrl(
                                            p.issueDataState,
                                            Head(p.pendingChildrenState).parentHtmlUrl),
                               aborted |-> FALSE,
                               controlled |-> TRUE]),
                 !.pendingChildCleanup = TRUE]

\* issueData.children.findIndex(...) of line 198, from 1; 0 when there is
\* none, and when issueData or the parent of the item is missing (the
\* TypeError is caught at line 205)
parentIndex(issueData, newIssueData) ==
  IF issueData = NoIssueData \/ newIssueData.parent = NoIssueData THEN 0
  ELSE FirstWithUrl(issueData.children, newIssueData.parent.html_url, 1)

\* a variant of MergeEffect: an item with no parent among the children of
\* the root stays in the queue
MergeEffect_KeepUnmatched(run, p) ==
  IF ~run \/ p.asyncIssueDataState = <<>> THEN p
  ELSE IF parentIndex(p.issueDataState, Head(p.asyncIssueDataState)) = 0 THEN p
  ELSE [p EXCEPT !.issueDataState.children[
                     parentIndex(p.issueDataState, Head(p.asyncIssueDataState))].children =
                       Append(@, Head(p.asyncIssueDataState)),
                 !.asyncIssueDataState = Tail(@),
                 !.asyncChanged = TRUE]

\* lines 189-209
MergeEffect(run, p) ==
  IF ~run \/ p.asyncIssueDataState = <<>> THEN p
  ELSE IF parentIndex(p.issueDataState, Head(p.asyncIssueDataState)) = 0
  THEN [p EXCEPT !.asyncIssueDataState = Tail(@),
                 !.asyncChanged = TRUE]
  ELSE [p EXCEPT !.issueDataState.children[
                     parentIndex(p.issueDataState, Head(p.asyncIssueDataState))].children =
                       Append(@, Head(p.asyncIssueDataState)),
                 !.asyncIssueDataState = Tail(@),
                 !.asyncChanged = TRUE]

\* lines 217-223
LoadingEffect(run, p) ==
  IF ~run THEN p
  ELSE IF /\ ~p.rendered.isRootIssueLoading
          /\ Len(p.pendingChildrenState) = 0
          /\ Len(p.asyncIssueDataState) = 0
  THEN [p EXCEPT !.globalLoading = "stopped", !.loadingCall = "stop"]
  ELSE [p EXCEPT !.globalLoading = "started", !.loadingCall = "start"]

\* the render itself
Rendered(p) ==
  [p EXCEPT !.mounted = TRUE,
            !.rendered = Snapshot(p),
            !.asyncChanged = FALSE,
            !.loadingCall = "none"]

\* a render of p and the effects after it: the cleanups, then the bodies,
\* each on the state the one before it has left
Flush(p) ==
  CHOOSE after \in
    {LoadingEffect(LoadingDeps(p), e3) : e3 \in
      {MergeEffect(MergeDeps(p), e2) : e2 \in
        {PendingChildEffect(PendingChildDeps(p), e1) : e1 \in
          {RoadmapEffect(RoadmapDeps(p), c2) : c2 \in
            {PendingChildCleanup(PendingChildDeps(p), c1) : c1 \in
              {RoadmapCleanup(RoadmapDeps(p), Rendered(p))}}}}}} : TRUE

\* the request at index i has been answered: it is in flight no more
Without(fetches, i) ==
  SubSeq(fetches, 1, i - 1) \o SubSeq(fetches, i + 1, Len(fetches))

\* lines 91-111: fetchRoadMap after the await
AfterRoadmapFetch(p, request, outcome) ==
  IF outcome.kind = "AbortError"
  THEN [p EXCEPT !.isRootIssueLoading = FALSE, !.loadingCall = "none"]
  ELSE IF outcome.kind = "thrown"
  THEN [p EXCEPT !.roadmapLoadErrorState = ErrorFetching(RootOf(request.slug)),
                 !.isRootIssueLoading = FALSE,
                 !.loadingCall = "none"]
  ELSE IF outcome.response.error # NoError
  THEN [p EXCEPT !.starMapsErrorsState =
                    IF outcome.response.errors # NoErrors
                    THEN outcome.response.errors ELSE @,
                 !.pendingChildrenState = outcome.response.pendingChildren,
                 !.roadmapLoadErrorState = outcome.response.error,
                 !.isRootIssueLoading = FALSE,
                 !.loadingCall = "none"]
  ELSE [p EXCEPT !.starMapsErrorsState =
                    IF outcome.response.errors # NoErrors
                    THEN outcome.response.errors ELSE @,
                 !.pendingChildrenState = outcome.response.pendingChildren,
                 !.issueDataState = outcome.response.data,
                 !.isRootIssueLoading = FALSE,
                 !.loadingCall = "none"]

\* pendingChildrenState[0].set(none)
WithoutFirst(seq) == IF seq = <<>> THEN <<>> ELSE Tail(seq)

\* lines 157-175: fetchPendingChildren after the await
AfterPendingChildFetch(p, request, outcome) ==
  IF outcome.kind = "AbortError"
  THEN [p EXCEPT !.pendingChildrenState = WithoutFirst(@),
                 !.isPendingChildrenLoading = FALSE,
                 !.loadingCall = "none"]
  ELSE IF outcome.kind = "thrown"
  THEN [p EXCEPT !.roadmapLoadErrorState = ErrorFetching(request.child.html_url),
                 !.pendingChildrenState = WithoutFirst(@),
                 !.isPendingChildrenLoading = FALSE,
                 !.loadingCall = "none"]
  ELSE IF outcome.response.error # NoError
  THEN [p EXCEPT !.roadmapLoadErrorState = outcome.response.error,
                 !.pendingChildrenState = WithoutFirst(@),
                 !.isPendingChildrenLoading = FALSE,
                 !.loadingCall = "none"]
  ELSE [p EXCEPT !.asyncIssueDataState =
                    Append(@, [html_url |-> outcome.response.data.html_url,
                               children |-> outcome.response.data.children,
                               parent |-> request.parent]),
                 !.asyncChanged = TRUE,
                 !.starMapsErrorsState = @ \cup outcome.response.errors,
                 !.pendingChildrenState = WithoutFirst(@),
                 !.isPendingChildrenLoading = FALSE,
                 !.loadingCall = "none"]

\* the parser is not part of the page
parserVars == <<issue, parts, children, line, resolution, unwrapped, eta, errors, pc>>

\* a RoadmapPage about to be mounted
InitPage ==
  /\ parts = <<>>
  /\ issue = [body |-> <<>>, body_html |-> DocEmpty, html_url |-> IssueUrl,
              root_issue |-> "false"]
  /\ children = NoResult
  /\ line = <<>>
  /\ resolution = NoResolution
  /\ unwrapped = Null
  /\ eta = NoResult
  /\ errors = <<>>
  /\ pc = "ready"
  /\ page = InitialPage
  /\ worker = InitialWorker

\* the first render and its effects
Mount ==
  /\ ~page.mounted
  /\ page' = Flush(page)
  /\ UNCHANGED <<parserVars, worker>>

\* a later render and its effects
Render ==
  /\ page.mounted
  /\ ~AbortPending(page)
  /\ NeedsRender(page)
  /\ page' = Flush(page)
  /\ UNCHANGED <<parserVars, worker>>

\* the router hands the page the props of another roadmap
Navigate ==
  /\ Settled(page)
  /\ page.navigations < MaxNavigations
  /\ page' = [page EXCEPT !.slug = IF @ = "a" THEN "b" ELSE "a",
                          !.navigations = @ + 1,
                          !.loadingCall = "none"]
  /\ UNCHANGED <<parserVars, worker>>

\* the fetch of /api/roadmap ends and fetchRoadMap goes on
RoadmapSettles ==
  /\ \E i \in 1..Len(page.fetches) :
       /\ page.fetches[i].kind = "roadmap"
       /\ page.fetches[i].aborted \/ Settled(page)
       /\ \E outcome \in IF page.fetches[i].aborted THEN {Aborted}
                         ELSE Outcomes(RoadmapResponses(page.fetches[i].slug)) :
            page' = AfterRoadmapFetch([page EXCEPT !.fetches = Without(@, i)],
                                      page.fetches[i], outcome)
  /\ UNCHANGED <<parserVars, worker>>

\* the fetch of /api/pendingChild ends and fetchPendingChildren goes on
PendingChildSettles ==
  /\ \E i \in 1..Len(page.fetches) :
       /\ page.fetches[i].kind = "pendingChild"
       /\ page.fetches[i].aborted \/ Settled(page)
       /\ \E outcome \in IF page.fetches[i].aborted THEN {Aborted}
                         ELSE Outcomes(PendingChildResponses(page.fetches[i].child)) :
            page' = AfterPendingChildFetch([page EXCEPT !.fetches = Without(@, i)],
                                           page.fetches[i], outcome)
  /\ UNCHANGED <<parserVars, worker>>

NextPage == Mount \/ Render \/ Navigate \/ RoadmapSettles \/ PendingChildSettles

SpecPage == InitPage /\ [][NextPage]_vars

\* every render that is due takes place and every fetch ends
SpecPageFair ==
  /\ SpecPage
  /\ WF_vars(Mount)
  /\ WF_vars(Render)
  /\ WF_vars(RoadmapSettles)
  /\ WF_vars(PendingChildSettles)

(***************************************************************************)
(* Properties of RoadmapPage (SpecPage, SpecPageFair).                     *)
(***************************************************************************)
\* the requests of a kind whose continuation has not run
InFlight(p, kind) == {i \in 1..Len(p.fetches) : p.fetches[i].kind = kind}

\* C23: the global loading effect calls stop() only when the request of the
\* root issue has ended (with a payload or an Error) and both queues are
\* empty, and start() in every other state.
C23_StopOnlyWhenAllDone ==
  page.loadingCall # "none" =>
    (page.loadingCall = "stop"
       <=> /\ InFlight(page, "roadmap") = {}
           /\ page.pendingChildrenState = <<>>
           /\ page.asyncIssueDataState = <<>>)

\* the first pending child leaves the queue in this step
HeadRemoved ==
  /\ page.pendingChildrenState # <<>>
  /\ page'.pendingChildrenState = Tail(page.pendingChildrenState)
  /\ Cardinality(InFlight(page', "roadmap")) >= Cardinality(InFlight(page, "roadmap"))

\* C24: when a pending child leaves the queue, its data joins the
\* async-issue queue or an error of its request is set in
\* roadmapLoadErrorState, also when the request has been aborted.
C24_NoChildSilentlyLost ==
  [][HeadRemoved =>
       \/ /\ Len(page'.asyncIssueDataState) > 0
          /\ page'.asyncIssueDataState # page.asyncIssueDataState
          /\ last(page'.asyncIssueDataState).html_url =
               Head(page.pendingChildrenState).html_url
       \/ /\ page'.roadmapLoadErrorState # NoError
          /\ page'.roadmapLoadErrorState.url =
               Head(page.pendingChildrenState).html_url]_vars

C26_OneRequestInQueueOrder ==
  [][/\ Cardinality(InFlight(page', "pendingChild")) <= 1
     /\ (/\ Len(page'.fetches) > Len(page.fetches)
         /\ last(page'.fetches).kind = "pendingChild")
          => /\ page.pendingChildrenState # <<>>
             /\ last(page'.fetches).child = Head(page.pendingChildrenState)
             /\ page'.pendingChildrenState = page.pendingChildrenState
             /\ ~page.isPendingChildrenLoading
             /\ InFlight(page, "pendingChild") = {}]_vars

\* the first entry has been answered and has left the queue: a request for
\* the second entry, now the first, is in flight
C26_Witness ==
  /\ page.pendingChildrenState = <<KidOrphan>>
  /\ Len(page.issueDataState.children) = 1
  /\ Len(page.issueDataState.children[1].children) = 1
  /\ page.issueDataState.children[1].children[1].html_url = KidPlain.html_url
  /\ InFlight(page, "pendingChild") = {1}
  /\ page.fetches[1].child = KidOrphan
  /\ ~page.fetches[1].aborted
  /\ page.isPendingChildrenLoading

\* the first item of the async-issue queue leaves it in this step
ItemConsumed ==
  /\ page.asyncIssueDataState # <<>>
  /\ page'.asyncIssueDataState = Tail(page.asyncIssueDataState)

\* the children of the root whose html_url is that of the parent of the item
MatchingChildren(tree, item) ==
  {k \in 1..Len(tree.children) : tree.children[k].html_url = item.parent.html_url}

\* C27: an item of the async-issue queue is appended to the children of the
\* root's direct child whose html_url is the html_url of the item's parent;
\* with no such child the tree is left as it is; the item leaves the queue
\* in both cases, and the tree changes in no other way.
C27_ItemsJoinTheTree ==
  [][/\ ItemConsumed =>
          IF MatchingChildren(page.issueDataState, Head(page.asyncIssueDataState)) = {}
          THEN page'.issueDataState = page.issueDataState
          ELSE \E k \in MatchingChildren(page.issueDataState, Head(page.asyncIssueDataState)) :
                 /\ page'.issueDataState.children[k].children =
                      Append(page.issueDataState.children[k].children,
                             Head(page.asyncIssueDataState))
                 /\ page'.issueDataState =
                      [page.issueDataState EXCEPT !.children[k].children =
                         page'.issueDataState.children[k].children]
     /\ (page'.issueDataState # page.issueDataState
           /\ Cardinality(InFlight(page', "roadmap")) >= Cardinality(InFlight(page, "roadmap")))
          => ItemConsumed
     /\ (page.mounted /\ page.asyncIssueDataState # <<>> /\ page.asyncChanged
           /\ page'.rendered # page.rendered) => ItemConsumed]_vars

\* the data of a pending child has joined the children of its parent, and
\* the data of a child with no parent in the tree has left the queue
C27_Witness ==
  /\ page.asyncIssueDataState = <<>>
  /\ page.pendingChildrenState = <<>>
  /\ page.fetches = <<>>
  /\ page.starMapsErrorsState = {"roadmap", "child"}
  /\ page.issueDataState.html_url = IssueUrl
  /\ Len(page.issueDataState.children[1].children) = 1
  /\ page.issueDataState.children[1].children[1].html_url = UrlOfIssue5
  /\ page.roadmapLoadErrorState = NoError
  /\ page.globalLoading = "stopped"

(***************************************************************************)
(* The CacheChildren strategy of the service worker                        *)
(* (src/tests/unit/parser.test.ts, lines 183-260).  A call of _handle and  *)
(* the populateCacheAsync it starts are two chains of awaits; every await  *)
(* on the cache, on the contentHashDB or on the network is one step of the *)
(* model, so that the steps of several calls interleave as the event loop  *)
(* allows.                                                                 *)
(***************************************************************************)

\* the number of calls of _handle
MaxCalls == 2

Two16 == 65536

\* String.prototype.charCodeAt(0), for the characters of the bodies
charCodeAt ==
  [c \in {" ", ",", "1", "2", "3", "[", "]"} |->
     CASE c = " " -> 32
       [] c = "," -> 44
       [] c = "1" -> 49
       [] c = "2" -> 50
       [] c = "3" -> 51
       [] c = "[" -> 91
       [] c = "]" -> 93]

\* line 188: 0 | (31 * hash + code), the sum brought back to a signed 32-bit
\* integer; computed on the two 16-bit halves of hash
hashStep(hash, code) ==
  LET lo == 31 * (hash % Two16) + code
      hi == (31 * ((hash \div Two16) % Two16) + (lo \div Two16)) % Two16
  IN  IF hi >= 32768 THEN (hi - Two16) * Two16 + (lo % Two16)
      ELSE hi * Two16 + (lo % Two16)

\* line 188: [...str].reduce(..., hash)
RECURSIVE reduceHash(_, _)
reduceHash(hash, str) ==
  IF str = <<>> THEN hash
  ELSE reduceHash(hashStep(hash, charCodeAt[Head(str)]), Tail(str))

\* line 188
generateHashCode(str) == reduceHash(0, str)

SyntaxError == "SyntaxError"

NotWhiteSpace(c) == c \notin WhiteSpace

IsNumber(item) == item # <<>> /\ \A j \in DOMAIN item : item[j] \in Digits

\* Response.json() (line 214), for the bodies of the model: an array of
\* numbers, with white space between the tokens
json(body) ==
  LET t == filter(NotWhiteSpace, body)
  IN  IF Len(t) < 2 \/ t[1] # "[" \/ t[Len(t)] # "]" THEN Throw(SyntaxError)
      ELSE LET items == IF Len(t) = 2 THEN <<>>
                        ELSE split(SubSeq(t, 2, Len(t) - 1), <<",">>)
           IN  IF \A i \in DOMAIN items : IsNumber(items[i])
               THEN Return(items) ELSE Throw(SyntaxError)

\* Array.prototype.join(',')
RECURSIVE joinComma(_)
joinComma(seq) ==
  IF seq = <<>> THEN <<>>
  ELSE IF Len(seq) = 1 THEN seq[1]
  ELSE seq[1] \o <<",">> \o joinComma(Tail(seq))

\* JSON.stringify (line 214) of an array of numbers
JSON_stringify(items) == <<"[">> \o joinComma(items) \o <<"]">>

BodyOne == <<"[", "1", "]">>
BodySpaced == <<"[", " ", "1", " ", "]">>
BodyMany == <<"[", "1", ",", "2", ",", "3", ",", "1", ",", "2", "]">>
BodyMalformed == <<"[", "1">>

\* the bodies of the responses a cache can hold
JsonBodies == {BodyOne, BodySpaced, BodyMany}
Bodies == JsonBodies \cup {BodyMalformed}

\* line 214, for every body: the hash of the response, or the error of json()
currentResponseHash ==
  [body \in Bodies |->
     IF json(body).ok THEN Return(generateHashCode(JSON_stringify(json(body).val)))
     ELSE Throw(SyntaxError)]

\* no response: what cacheMatch finds for a key the cache does not hold
Undefined == [ok |-> FALSE, body |-> <<"undefined">>]
\* a response with a status outside 200-299
NotOk == [ok |-> FALSE, body |-> <<>>]
OkResponses == {[ok |-> TRUE, body |-> body] : body \in Bodies}
CachedResponses == {[ok |-> TRUE, body |-> body] : body \in JsonBodies}

\* what handler.fetch ends with (line 207): a response, or a rejection
FetchOutcomes ==
  {[failed |-> FALSE, response |-> r] : r \in OkResponses \cup {NotOk}}
    \cup {[failed |-> TRUE, response |-> Undefined]}

\* a hashCode of the hashes table, and the '' of line 213
Number(n) == [type |-> "number", value |-> n]
EmptyString == [type |-> "string", value |-> 0]

ParentA == <<"{", "node_id", ":", "A", "}">>
ParentMalformed == <<"{", "node_id">>

\* JSON.parse(parentJson) (line 234), on the tokens of the text
JSON_parse(tokens) ==
  IF tokens = <<"{", "}">> THEN Return([node_id |-> Null])
  ELSE IF /\ Len(tokens) = 5
          /\ <<tokens[1], tokens[2], tokens[3], tokens[5]>> = <<"{", "node_id", ":", "}">>
       THEN Return([node_id |-> <<tokens[4]>>])
  ELSE Throw(SyntaxError)

\* the query parameters of a request (lines 224-230): the value of
\* URLSearchParams.get is a string, or null for a parameter that is missing
Request(issue_number, owner, repo, parentJson) ==
  [issue_number |-> issue_number, owner |-> owner, repo |-> repo,
   parentJson |-> parentJson]

ReqWithParent == Request(<<"1">>, <<"o">>, <<"r">>, ParentA)
ReqNoRepo == Request(<<"1">>, <<"o">>, Null, Null)
ReqNoOwner == Request(<<"1">>, <<>>, <<"r">>, ParentA)
ReqBadParent == Request(<<"1">>, <<"o">>, <<"r">>, ParentMalformed)

Requests == {ReqWithParent, ReqNoRepo, ReqNoOwner, ReqBadParent}

\* !value of line 231, for a string or null
Falsy(value) == value = Null \/ value = <<>>

InvalidQueryParameters == "Invalid query parameters"

\* lines 227-241: the cache key of a request, or the error thrown on the way
cacheKeyOf(request) ==
  IF Falsy(request.issue_number) \/ Falsy(request.owner) \/ Falsy(request.repo)
  THEN Throw(InvalidQueryParameters)
  ELSE LET parent == IF Falsy(request.parentJson) THEN Return([node_id |-> Null])
                     ELSE JSON_parse(request.parentJson)
       IN  IF ~parent.ok THEN parent
           ELSE Return(request.owner \o <<"/">> \o request.repo \o <<"/">>
                         \o request.issue_number \o <<"/">>
                         \o (IF Falsy(parent.val.node_id) THEN <<>>
                             ELSE parent.val.node_id))

\* the keys of the requests of the model
CacheKeys == {cacheKeyOf(request).val : request \in {r \in Requests : cacheKeyOf(r).ok}}

\* handler.cacheMatch(cacheKey) (lines 243, 250)
cacheMatch(cache, cacheKey) ==
  IF cacheKey \in DOMAIN cache THEN cache[cacheKey] ELSE Undefined

\* a variant of previousResponseHash: the hashes table is not looked at
previousResponseHash_NotRead(hashes, cacheKey) == EmptyString

\* hashCodeStoredValue?.hashCode ?? '' (lines 212-213)
previousResponseHash(hashes, cacheKey) ==
  IF cacheKey \in DOMAIN hashes THEN Number(hashes[cacheKey]) ELSE EmptyString

\* line 257
CachingFailed == "Custom Caching of Children Failed with error"

\* what a call of _handle has come to
NotSettled == [settled |-> FALSE, error |-> "", response |-> Undefined]
Responds(response) == [settled |-> TRUE, error |-> "", response |-> response]
Fails(error) == [settled |-> TRUE, error |-> error, response |-> Undefined]

\* a call of _handle: where it stands (at the first cacheMatch, at
\* doneWaiting, or done), whether it has taken the branch of line 249, how
\* many fetches it has started and what its fetch has ended with, and where
\* its populateCacheAsync stands (at the fetch, at hashes.get, at hashes.put,
\* at cachePut, fulfilled or rejected) with the response and the hash it
\* holds as long as it needs them
Call(request) ==
  LET key == cacheKeyOf(request)
  IN  [request |-> request,
       cacheKey |-> IF key.ok THEN key.val ELSE <<>>,
       pc |-> IF key.ok THEN "cacheMatch" ELSE "done",
       waited |-> FALSE,
       revalidation |-> "none",
       fetches |-> 0,
       fetched |-> "none",
       response |-> Undefined,
       hash |-> 0,
       result |-> IF key.ok THEN NotSettled ELSE Fails(CachingFailed)]

\* the caches and hashes tables a service worker can start with: the
\* expiration of the cache and the contentHashDB are independent of each other
Tables(values) == UNION {[keys -> values] : keys \in SUBSET CacheKeys}

StoredHashes == {currentResponseHash[body].val : body \in JsonBodies}

InitWorker ==
  /\ parts = <<>>
  /\ issue = [body |-> <<>>, body_html |-> DocEmpty, html_url |-> IssueUrl,
              root_issue |-> "false"]
  /\ children = NoResult
  /\ line = <<>>
  /\ resolution = NoResolution
  /\ unwrapped = Null
  /\ eta = NoResult
  /\ errors = <<>>
  /\ pc = "ready"
  /\ page = InitialPage
  /\ worker \in {[cache |-> cache, hashes |-> hashes, calls |-> <<>>] :
                   cache \in Tables(CachedResponses), hashes \in Tables(StoredHashes)}

\* a variant of AfterCacheMatch: the network is asked only when the cache
\* holds no response
AfterCacheMatch_CacheFirst(call, cachedResponse) ==
  IF cachedResponse = Undefined
  THEN [call EXCEPT !.revalidation = "fetch", !.fetches = @ + 1, !.waited = TRUE,
                    !.pc = "doneWaiting"]
  ELSE [call EXCEPT !.pc = "done", !.revalidation = "fulfilled",
                    !.result = Responds(cachedResponse)]

\* lines 244-255: _handle after its first cacheMatch: populateCacheAsync is
\* called and runs up to its fetch; with a cached response _handle returns,
\* with none it waits
AfterCacheMatch(call, cachedResponse) ==
  [call EXCEPT
     !.revalidation = "fetch",
     !.fetches = @ + 1,
     !.waited = cachedResponse = Undefined,
     !.pc = IF cachedResponse = Undefined THEN "doneWaiting" ELSE "done",
     !.result = IF cachedResponse = Undefined THEN NotSettled
                ELSE Responds(cachedResponse)]

\* lines 222-243: _handle is called and runs up to its first await
Handle ==
  /\ Len(worker.calls) < MaxCalls
  /\ \E request \in Requests :
       worker' = [worker EXCEPT !.calls = Append(@, Call(request))]
  /\ UNCHANGED <<parserVars, page>>

\* lines 243-255: the first cacheMatch ends
CacheMatched ==
  /\ \E i \in DOMAIN worker.calls :
       /\ worker.calls[i].pc = "cacheMatch"
       /\ worker' =
            [worker EXCEPT
               !.calls[i] =
                  AfterCacheMatch(@, cacheMatch(worker.cache, worker.calls[i].cacheKey))]
  /\ UNCHANGED <<parserVars, page>>

\* lines 207-211: the fetch of populateCacheAsync ends
FetchSettles ==
  /\ \E i \in DOMAIN worker.calls, outcome \in FetchOutcomes :
       /\ worker.calls[i].revalidation = "fetch"
       /\ worker' =
            [worker EXCEPT
               !.calls[i].response =
                  IF ~outcome.failed /\ outcome.response.ok THEN outcome.response
                  ELSE Undefined,
               !.calls[i].fetched =
                  IF outcome.failed THEN "failed"
                  ELSE IF outcome.response.ok THEN "ok"
                  ELSE "not ok",
               !.calls[i].revalidation =
                  IF outcome.failed THEN "rejected"
                  ELSE IF ~outcome.response.ok THEN "fulfilled"
                  ELSE "hashes.get"]
  /\ UNCHANGED <<parserVars, page>>

\* lines 212-216: hashes.get ends, the body is read and the hashes compared
HashRead ==
  /\ \E i \in DOMAIN worker.calls :
       /\ worker.calls[i].revalidation = "hashes.get"
       /\ LET previous == previousResponseHash(worker.hashes, worker.calls[i].cacheKey)
              current == currentResponseHash[worker.calls[i].response.body]
          IN  worker' =
                [worker EXCEPT
                   !.calls[i].hash =
                      IF current.ok /\ previous # Number(current.val) THEN current.val
                      ELSE 0,
                   !.calls[i].response =
                      IF current.ok /\ previous # Number(current.val) THEN @
                      ELSE Undefined,
                   !.calls[i].revalidation =
                      IF ~current.ok THEN "rejected"
                      ELSE IF previous # Number(current.val) THEN "hashes.put"
                      ELSE "fulfilled"]
  /\ UNCHANGED <<parserVars, page>>

\* line 217: hashes.put
HashPut ==
  /\ \E i \in DOMAIN worker.calls :
       /\ worker.calls[i].revalidation = "hashes.put"
       /\ worker' =
            [worker EXCEPT
               !.hashes = (worker.calls[i].cacheKey :> worker.calls[i].hash) @@ @,
               !.calls[i].hash = 0,
               !.calls[i].revalidation = "cachePut"]
  /\ UNCHANGED <<parserVars, page>>

\* line 218: handler.cachePut, the last step of populateCacheAsync
CachePut ==
  /\ \E i \in DOMAIN worker.calls :
       /\ worker.calls[i].revalidation = "cachePut"
       /\ worker' =
            [worker EXCEPT
               !.cache = (worker.calls[i].cacheKey :> worker.calls[i].response) @@ @,
               !.calls[i].response = Undefined,
               !.calls[i].revalidation = "fulfilled"]
  /\ UNCHANGED <<parserVars, page>>

\* lines 249-258: doneWaiting ends when populateCacheAsync has, and the
\* second cacheMatch is what _handle returns.  handler.doneWaiting is not
\* code of the repository: a rejection of populateCacheAsync is either
\* passed on by it, and caught at line 256, or not.
DoneWaiting ==
  /\ \E i \in DOMAIN worker.calls, passedOn \in BOOLEAN :
       /\ worker.calls[i].pc = "doneWaiting"
       /\ worker.calls[i].revalidation \in {"fulfilled", "rejected"}
       /\ worker.calls[i].revalidation = "fulfilled" => ~passedOn
       /\ worker' =
            [worker EXCEPT
               !.calls[i].pc = "done",
               !.calls[i].result =
                  IF passedOn THEN Fails(CachingFailed)
                  ELSE Responds(cacheMatch(worker.cache, worker.calls[i].cacheKey))]
  /\ UNCHANGED <<parserVars, page>>

NextWorker ==
  Handle \/ CacheMatched \/ FetchSettles \/ HashRead \/ HashPut \/ CachePut \/ DoneWaiting

SpecWorker == InitWorker /\ [][NextWorker]_vars

\* a service worker that has stored nothing yet
InitWorkerEmpty ==
  /\ InitWorker
  /\ worker = InitialWorker

SpecWorkerEmpty == InitWorkerEmpty /\ [][NextWorker]_vars

(***************************************************************************)
(* Properties of CacheChildren (SpecWorker).                               *)
(***************************************************************************)

\* the call has passed the test of line 231 and the JSON.parse of line 234
HasCacheKey(call) == call.pc # "done" \/ call.revalidation # "none"

\* populateCacheAsync has ended
Revalidated(call) == call.revalidation \in {"fulfilled", "rejected"}

C29_MissReturnsResponse ==
  \A i \in DOMAIN worker.calls :
    LET call == worker.calls[i]
    IN  /\ call.waited
        /\ call.pc = "done"
        /\ call.fetched = "ok"
        /\ call.revalidation = "fulfilled"
        => /\ call.result.error = ""
           /\ call.result.response # Undefined

\* what the hashes table holds for every key of the cache is the hash of the
\* response the cache holds for it
HashesDescribeCache(w) ==
  \A cacheKey \in DOMAIN w.cache :
    /\ cacheKey \in DOMAIN w.hashes
    /\ Return(w.hashes[cacheKey]) = currentResponseHash[w.cache[cacheKey].body]

\* no populateCacheAsync is under way or about to be called
AllRevalidated(w) ==
  \A i \in DOMAIN w.calls : w.calls[i].pc = "done" /\ w.calls[i].revalidation # "fetch"
     /\ w.calls[i].revalidation \in {"none", "fulfilled", "rejected"}

\* C30: in a service worker that starts with nothing stored, the hashes
\* table describes the cache whenever every populateCacheAsync has ended, in
\* whatever order the steps of the calls were taken.
C30_HashesDescribeCache ==
  AllRevalidated(worker) => HashesDescribeCache(worker)

\* the hashes table holds this hash for the key
HashStored(w, cacheKey, hash) ==
  cacheKey \in DOMAIN w.hashes /\ w.hashes[cacheKey] = hash

\* the call is at one of the two writes of populateCacheAsync
Writing(call) == call.revalidation \in {"hashes.put", "cachePut"}

\* C31: populateCacheAsync writes only for an ok response whose hash is not
\* the hash it has read for the key.  The hashes table and the cache change
\* only in a step of a call that is at hashes.put or at cachePut; a call comes to hashes.put only from hashes.get,
\* with an ok response whose hash differs from the stored one (or with none
\* stored), and to cachePut only from hashes.put; a call whose fetch has
\* ended with a response that is not ok, or with an ok response whose hash
\* is the stored one, has ended without a write.
C31_WritesOnlyForNewContent ==
  [][/\ worker'.hashes # worker.hashes \/ worker'.cache # worker.cache
         => \E i \in DOMAIN worker.calls :
              /\ Writing(worker.calls[i])
              /\ worker.calls[i].fetched = "ok"
     /\ \A i \in DOMAIN worker.calls :
          LET call == worker.calls[i]
              after == worker'.calls[i]
          IN  /\ after.revalidation = "hashes.put" /\ call.revalidation # "hashes.put"
                   => /\ call.revalidation = "hashes.get"
                      /\ call.fetched = "ok"
                      /\ currentResponseHash[call.response.body].ok
                      /\ ~HashStored(worker, call.cacheKey,
                                      currentResponseHash[call.response.body].val)
              /\ after.revalidation = "cachePut" /\ call.revalidation # "cachePut"
                   => call.revalidation = "hashes.put"
              /\ call.revalidation = "fetch" /\ after.fetched = "not ok"
                   => after.revalidation = "fulfilled" /\ worker'.hashes = worker.hashes
                        /\ worker'.cache = worker.cache
              /\ (/\ call.revalidation = "hashes.get"
                  /\ after.revalidation # "hashes.get"
                  /\ currentResponseHash[call.response.body].ok
                  /\ HashStored(worker, call.cacheKey,
                                currentResponseHash[call.response.body].val))
                   => after.revalidation = "fulfilled" /\ worker'.hashes = worker.hashes
                        /\ worker'.cache = worker.cache]_vars

\* one populateCacheAsync has ended on a response that is not ok, another
\* has put the hash of its ok response and is about to put the response
C31_Witness ==
  \E i, j \in DOMAIN worker.calls :
    /\ worker.calls[i].fetched = "not ok"
    /\ worker.calls[i].revalidation = "fulfilled"
    /\ worker.calls[j].revalidation = "cachePut"
    /\ worker.calls[j].cacheKey \in DOMAIN worker.hashes
    /\ Return(worker.hashes[worker.calls[j].cacheKey])
         = currentResponseHash[worker.calls[j].response.body]

====
